---- MODULE Spec2Model ----
(***************************************************************************)
(* A model of adtlib's Graph (adtlib/graph.py) over GraphNode              *)
(* (adtlib/node.py).  Node objects are the integers 1..NumNodes: object    *)
(* identity (GraphNode.__eq__/__hash__ compare id()) is integer equality.  *)
(* A Python list is a sequence, a dict is a function whose DOMAIN is the   *)
(* set of keys.  GraphNode._neighbours is None or a list; every reader in  *)
(* node.py treats None as the empty list, which is how it is kept here.    *)
(***************************************************************************)
EXTENDS Integers, Sequences, FiniteSets, TLC

\* ---- bounds -------------------------------------------------------------
NumNodes == 2      \* node objects the client has constructed
MaxWeight == 0     \* edge weights are 0..MaxWeight
MaxOps == 5        \* calls made on the graph in one behaviour
NumPeers == 3      \* node objects when nodes are also called directly
MaxNodeOps == 4    \* calls made in one behaviour when nodes are also called directly
NumTravNodes == 4  \* registered nodes of a graph that is traversed
MaxEdges == 4      \* add_edge calls that build a graph that is traversed
NumPathNodes == 3  \* registered nodes of a graph whose shortest paths are computed
MaxPathWeight == 1 \* its edge weights are 0..MaxPathWeight, or None
MaxPathEdges == 3  \* add_edge calls that build it
MaxPriority == 1   \* priorities given to PriorityQueue.push are 0..MaxPriority
MaxRepeatEdges == 3  \* add_edge calls that build a graph on which a call is repeated
MaxMutOps == 4     \* Graph calls made before a graph that had its nodes registered is traversed
MaxContainerOps == 7  \* calls made on a Queue, a Stack and a PriorityQueue
NumKeys == 4       \* values given to a BinarySearchTree are 0..NumKeys-1
MaxTreeOps == 5    \* calls made on a BinarySearchTree
MaxListOps == 7    \* calls made on a linked list
MaxNumber == 2     \* the numbers in a list that is sorted are 0..MaxNumber
MaxLen == 4        \* its length is at most MaxLen
MaxSortCalls == 2  \* calls of sorting functions on it

NodeIds == 1..NumNodes
PeerIds == 1..NumPeers
TravIds == 1..NumTravNodes
PathIds == 1..NumPathNodes
PathWeights == 0..MaxPathWeight
Values == 1..NumNodes   \* at most one value per node object
Weights == 0..MaxWeight
None == -1         \* Python's None (no weight / no node / no result)

VARIABLES
  value,       \* GraphNode._value of every node object
  neighbours,  \* GraphNode._neighbours of every node object
  nodes,       \* Graph._nodes
  node_map,    \* Graph._node_map
  weights,     \* Graph._weights
  directed,    \* Graph._directed
  call,        \* the last call made on the graph and its arguments
  raised,      \* the exception the last call raised, or "none"
  returned,    \* the value the last call returned (None for procedures)
  ops,         \* number of calls made so far
  frame        \* local variables of the traversal call in progress

vars == <<value, neighbours, nodes, node_map, weights, directed,
          call, raised, returned, ops, frame>>

\* ---- Python list / dict primitives --------------------------------------
\* x in lst
In(x, lst) == \E i \in 1..Len(lst) : lst[i] = x

\* index of the first occurrence of x in lst (x must occur)
FirstIndex(x, lst) == CHOOSE i \in 1..Len(lst) :
                        lst[i] = x /\ \A j \in 1..(i - 1) : lst[j] # x

\* lst.remove(x): drops the first occurrence only
ListRemove(lst, x) ==
  LET k == FirstIndex(x, lst)
  IN  [i \in 1..(Len(lst) - 1) |-> IF i < k THEN lst[i] ELSE lst[i + 1]]

\* [e for e in lst if e is not x]
Without(lst, x) == SelectSeq(lst, LAMBDA e : e # x)

\* d[k] = v
DictSet(d, k, v) == [j \in DOMAIN d \cup {k} |-> IF j = k THEN v ELSE d[j]]

\* del d[k]  /  d.pop(k, None)
DictDel(d, k) == [j \in DOMAIN d \ {k} |-> d[j]]

\* d.get(k)
DictGet(d, k) == IF k \in DOMAIN d THEN d[k] ELSE None

EmptyDict == [j \in {} |-> None]

\* ---- GraphNode ----------------------------------------------------------
\* variant of add_neighbour without the self-loop test
add_neighbour_never_raises(self, node) == FALSE

\* add_neighbour raises ValueError when node is self
add_neighbour_raises(self, node) == node = self

\* variant of add_neighbour without the membership test
add_neighbour_always_append(nbrs, self, node) ==
  [nbrs EXCEPT ![self] = Append(nbrs[self], node)]

\* add_neighbour, when it does not raise: append unless present
add_neighbour(nbrs, self, node) ==
  [nbrs EXCEPT ![self] = IF In(node, nbrs[self]) THEN nbrs[self]
                         ELSE Append(nbrs[self], node)]

\* variant of remove_neighbour that drops the newest neighbour, whichever
\* node is asked for
remove_neighbour_newest(nbrs, self, node) ==
  [nbrs EXCEPT ![self] = SubSeq(nbrs[self], 1, Len(nbrs[self]) - 1)]

\* remove_neighbour: no-op on an empty list or an absent node
remove_neighbour(nbrs, self, node) ==
  [nbrs EXCEPT ![self] = IF Len(nbrs[self]) = 0 THEN nbrs[self]
                         ELSE IF In(node, nbrs[self])
                              THEN ListRemove(nbrs[self], node)
                              ELSE nbrs[self]]

\* has_neighbour
has_neighbour(self, node) == In(node, neighbours[self])

\* degree: len(self._neighbours), 0 for None or the empty list
degree(nbrs, self) == IF Len(nbrs[self]) > 0 THEN Len(nbrs[self]) ELSE 0

\* ---- Graph --------------------------------------------------------------
\* variant of the membership check that accepts one registered endpoint
BothInGraph_either(node1, node2) == In(node1, nodes) \/ In(node2, nodes)

\* the check shared by the edge operations: both nodes in self.nodes
BothInGraph(node1, node2) == In(node1, nodes) /\ In(node2, nodes)

get_node(v) == DictGet(node_map, v)

\* The values the client gave its nodes.  Node objects and values are
\* interchangeable names, so values are numbered in order of first use:
\* node 1 carries value 1 and node n carries a value some earlier node
\* carries or the next unused one.
NodeValues ==
  {f \in [NodeIds -> Values] :
     \A n \in NodeIds :
       \/ n = 1 /\ f[n] = 1
       \/ n > 1 /\ (\/ \E m \in 1..(n - 1) : f[m] = f[n]
                    \/ \A m \in 1..(n - 1) : f[m] < f[n] /\ \E k \in 1..(n - 1) : f[k] = f[n] - 1)}

\* no traversal has been called
NoFrame == [fn |-> "none", pc |-> "idle", start |-> None,
            data |-> <<>>, visited |-> {}, order |-> <<>>]

Init ==
  /\ frame = NoFrame
  /\ value \in NodeValues
  /\ neighbours = [n \in NodeIds |-> <<>>]
  /\ nodes = <<>>
  /\ node_map = EmptyDict
  /\ weights = EmptyDict
  /\ directed \in BOOLEAN
  /\ call = [op |-> "init", node1 |-> None, node2 |-> None, weight |-> None]
  /\ raised = "none"
  /\ returned = None
  /\ ops = 0

Called(op, n1, n2, w) ==
  /\ ops < MaxOps
  /\ ops' = ops + 1
  /\ call' = [op |-> op, node1 |-> n1, node2 |-> n2, weight |-> w]
  /\ UNCHANGED frame

\* variant of add_node whose duplicate test is on the node object, not its value
AddNode_identity_guard(node) ==
  /\ Called("add_node", node, None, None)
  /\ IF In(node, nodes)
     THEN UNCHANGED <<nodes, node_map>>
     ELSE /\ nodes' = Append(nodes, node)
          /\ node_map' = DictSet(node_map, value[node], node)
  /\ raised' = "none"
  /\ returned' = None
  /\ UNCHANGED <<value, neighbours, weights, directed>>

\* Graph.add_node
AddNode(node) ==
  /\ Called("add_node", node, None, None)
  /\ IF value[node] \in DOMAIN node_map
     THEN UNCHANGED <<nodes, node_map>>
     ELSE /\ nodes' = Append(nodes, node)
          /\ node_map' = DictSet(node_map, value[node], node)
  /\ raised' = "none"
  /\ returned' = None
  /\ UNCHANGED <<value, neighbours, weights, directed>>

\* variant of the remove_node loop that visits only the nodes `node` points at
strip_node_outbound(nbrs, nds, node) ==
  [n \in DOMAIN nbrs |-> IF In(n, nbrs[node]) THEN Without(nbrs[n], node) ELSE nbrs[n]]

\* the loop of Graph.remove_node: every node of self.nodes drops `node`
strip_node(nbrs, nds, node) ==
  [n \in DOMAIN nbrs |-> IF In(n, nds) THEN Without(nbrs[n], node) ELSE nbrs[n]]

\* Graph.remove_node
RemoveNode(node) ==
  /\ Called("remove_node", node, None, None)
  /\ neighbours' = strip_node(neighbours, nodes, node)
  /\ nodes' = IF In(node, nodes) THEN ListRemove(nodes, node) ELSE nodes
  /\ node_map' = IF value[node] \in DOMAIN node_map
                 THEN DictDel(node_map, value[node]) ELSE node_map
  /\ raised' = "none"
  /\ returned' = None
  /\ UNCHANGED <<value, weights, directed>>

\* variant of set_edge_weight that never records the mirrored entry
set_edge_weight_oneway(wts, dir, node1, node2, weight) ==
  DictSet(wts, <<node1, node2>>, weight)

\* variant of set_edge_weight that mirrors the entry in directed graphs too
set_edge_weight_mirrored(wts, dir, node1, node2, weight) ==
  DictSet(DictSet(wts, <<node1, node2>>, weight), <<node2, node1>>, weight)

\* the body of Graph.set_edge_weight after its membership check
set_edge_weight(wts, dir, node1, node2, weight) ==
  LET w1 == DictSet(wts, <<node1, node2>>, weight)
  IN  IF ~dir THEN DictSet(w1, <<node2, node1>>, weight) ELSE w1

\* variant of add_edge that never adds the reverse adjacency
add_edge_neighbours_oneway(nbrs, dir, node1, node2) ==
  add_neighbour(nbrs, node1, node2)

\* the adjacency part of Graph.add_edge after its membership check
add_edge_neighbours(nbrs, dir, node1, node2) ==
  LET n1 == add_neighbour(nbrs, node1, node2)
  IN  IF ~dir THEN add_neighbour(n1, node2, node1) ELSE n1

NotInGraphError == "ValueError: Both nodes must be part of the graph"
SelfLoopError == "ValueError: A node cannot be its own neighbour"

\* variant of add_edge that records the weight before it touches adjacency
AddEdge_weight_first(node1, node2, weight) ==
  /\ Called("add_edge", node1, node2, weight)
  /\ returned' = None
  /\ UNCHANGED <<value, nodes, node_map, directed>>
  /\ IF ~BothInGraph(node1, node2)
     THEN /\ raised' = NotInGraphError
          /\ UNCHANGED <<neighbours, weights>>
     ELSE /\ weights' = IF weight # None
                        THEN set_edge_weight(weights, directed, node1, node2, weight)
                        ELSE weights
          /\ IF add_neighbour_raises(node1, node2)
             THEN /\ raised' = SelfLoopError
                  /\ UNCHANGED neighbours
             ELSE /\ raised' = "none"
                  /\ neighbours' = add_edge_neighbours(neighbours, directed, node1, node2)

\* variant of add_edge that forgets the recorded weight when none is given
AddEdge_weight_reset(node1, node2, weight) ==
  /\ Called("add_edge", node1, node2, weight)
  /\ returned' = None
  /\ UNCHANGED <<value, nodes, node_map, directed>>
  /\ IF ~BothInGraph(node1, node2)
     THEN /\ raised' = NotInGraphError
          /\ UNCHANGED <<neighbours, weights>>
     ELSE IF add_neighbour_raises(node1, node2)
     THEN /\ raised' = SelfLoopError
          /\ UNCHANGED <<neighbours, weights>>
     ELSE /\ raised' = "none"
          /\ neighbours' = add_edge_neighbours(neighbours, directed, node1, node2)
          /\ weights' = IF weight # None
                        THEN set_edge_weight(weights, directed, node1, node2, weight)
                        ELSE IF directed
                        THEN DictDel(weights, <<node1, node2>>)
                        ELSE DictDel(DictDel(weights, <<node1, node2>>), <<node2, node1>>)

\* Graph.add_edge (weight = None: no weight given)
AddEdge(node1, node2, weight) ==
  /\ Called("add_edge", node1, node2, weight)
  /\ returned' = None
  /\ UNCHANGED <<value, nodes, node_map, directed>>
  /\ IF ~BothInGraph(node1, node2)
     THEN /\ raised' = NotInGraphError
          /\ UNCHANGED <<neighbours, weights>>
     ELSE IF add_neighbour_raises(node1, node2)
     THEN /\ raised' = SelfLoopError
          /\ UNCHANGED <<neighbours, weights>>
     ELSE /\ raised' = "none"
          /\ neighbours' = add_edge_neighbours(neighbours, directed, node1, node2)
          /\ weights' = IF weight # None
                        THEN set_edge_weight(weights, directed, node1, node2, weight)
                        ELSE weights

\* the adjacency part of Graph.remove_edge after its membership check
remove_edge_neighbours(nbrs, dir, node1, node2) ==
  LET n1 == remove_neighbour(nbrs, node1, node2)
  IN  IF ~dir THEN remove_neighbour(n1, node2, node1) ELSE n1

\* variant of remove_edge that pops the mirrored entry in directed graphs too
remove_edge_weights_both(wts, dir, node1, node2) ==
  DictDel(DictDel(wts, <<node1, node2>>), <<node2, node1>>)

\* the weight part of Graph.remove_edge after its membership check
remove_edge_weights(wts, dir, node1, node2) ==
  LET w1 == DictDel(wts, <<node1, node2>>)
  IN  IF ~dir THEN DictDel(w1, <<node2, node1>>) ELSE w1

\* Graph.remove_edge
RemoveEdge(node1, node2) ==
  /\ Called("remove_edge", node1, node2, None)
  /\ returned' = None
  /\ UNCHANGED <<value, nodes, node_map, directed>>
  /\ IF ~BothInGraph(node1, node2)
     THEN /\ raised' = NotInGraphError
          /\ UNCHANGED <<neighbours, weights>>
     ELSE /\ raised' = "none"
          /\ neighbours' = remove_edge_neighbours(neighbours, directed, node1, node2)
          /\ weights' = remove_edge_weights(weights, directed, node1, node2)

\* Graph.set_edge_weight
SetEdgeWeight(node1, node2, weight) ==
  /\ Called("set_edge_weight", node1, node2, weight)
  /\ returned' = None
  /\ UNCHANGED <<value, nodes, node_map, directed, neighbours>>
  /\ IF ~BothInGraph(node1, node2)
     THEN /\ raised' = NotInGraphError
          /\ UNCHANGED weights
     ELSE /\ raised' = "none"
          /\ weights' = set_edge_weight(weights, directed, node1, node2, weight)

\* variant of the lookup that gives an edge without recorded weight the weight 0
get_edge_weight_default_zero(node1, node2) ==
  IF <<node1, node2>> \in DOMAIN weights THEN weights[<<node1, node2>>] ELSE 0

\* the lookup of Graph.get_edge_weight after its membership check
get_edge_weight(node1, node2) == DictGet(weights, <<node1, node2>>)

\* Graph.get_edge_weight
GetEdgeWeight(node1, node2) ==
  /\ Called("get_edge_weight", node1, node2, None)
  /\ UNCHANGED <<value, nodes, node_map, directed, neighbours, weights>>
  /\ IF ~BothInGraph(node1, node2)
     THEN /\ raised' = NotInGraphError
          /\ returned' = None
     ELSE /\ raised' = "none"
          /\ returned' = get_edge_weight(node1, node2)

Next ==
  \/ \E n \in NodeIds : AddNode(n)
  \/ \E n \in NodeIds : RemoveNode(n)
  \/ \E a, b \in NodeIds : \E w \in Weights \cup {None} : AddEdge(a, b, w)
  \/ \E a, b \in NodeIds : RemoveEdge(a, b)
  \/ \E a, b \in NodeIds : \E w \in Weights : SetEdgeWeight(a, b, w)
  \/ \E a, b \in NodeIds : GetEdgeWeight(a, b)

Spec == Init /\ [][Next]_vars

\* ---- GraphNode called directly, next to the Graph operations ------------
\* GraphNode.add_neighbour called by the client
AddNeighbour(self, node) ==
  /\ Called("add_neighbour", self, node, None)
  /\ returned' = None
  /\ UNCHANGED <<value, nodes, node_map, weights, directed>>
  /\ IF add_neighbour_raises(self, node)
     THEN /\ raised' = SelfLoopError
          /\ UNCHANGED neighbours
     ELSE /\ raised' = "none"
          /\ neighbours' = add_neighbour(neighbours, self, node)

\* GraphNode.remove_neighbour called by the client
RemoveNeighbour(self, node) ==
  /\ Called("remove_neighbour", self, node, None)
  /\ returned' = None
  /\ raised' = "none"
  /\ neighbours' = remove_neighbour(neighbours, self, node)
  /\ UNCHANGED <<value, nodes, node_map, weights, directed>>

\* an empty graph and NumPeers fresh nodes of distinct values
NodeInit ==
  /\ frame = NoFrame
  /\ value = [n \in PeerIds |-> n]
  /\ neighbours = [n \in PeerIds |-> <<>>]
  /\ nodes = <<>>
  /\ node_map = EmptyDict
  /\ weights = EmptyDict
  /\ directed \in BOOLEAN
  /\ call = [op |-> "init", node1 |-> None, node2 |-> None, weight |-> None]
  /\ raised = "none"
  /\ returned = None
  /\ ops = 0

NodeNext ==
  /\ ops < MaxNodeOps
  /\ \/ \E n \in PeerIds : AddNode(n)
     \/ \E n \in PeerIds : RemoveNode(n)
     \/ \E a, b \in PeerIds : AddEdge(a, b, None)
     \/ \E a, b \in PeerIds : RemoveEdge(a, b)
     \/ \E a, b \in PeerIds : AddNeighbour(a, b)
     \/ \E a, b \in PeerIds : RemoveNeighbour(a, b)

NodeSpec == NodeInit /\ [][NodeNext]_vars

\* ---- Queue and Stack (adtlib/queue.py, adtlib/stack.py) ------------------
\* Queue.enqueue: deque.append
Queue_enqueue(data, item) == Append(data, item)

\* variant of dequeue that leaves the item in the queue
Queue_dequeue_peek(data) == <<Head(data), data>>

\* variant of dequeue that takes the item from the back
Queue_dequeue_back(data) == <<data[Len(data)], SubSeq(data, 1, Len(data) - 1)>>

\* Queue.dequeue on a non-empty queue: <<item returned, data left>> (popleft)
Queue_dequeue(data) == <<Head(data), Tail(data)>>

\* Queue.peek on a non-empty queue
Queue_peek(data) == Head(data)

\* Queue.is_empty
Queue_is_empty(data) == Len(data) = 0

\* Stack.push: list.append
Stack_push(data, item) == Append(data, item)

\* Stack.pop on a non-empty stack: <<item returned, data left>> (list.pop)
Stack_pop(data) == <<data[Len(data)], SubSeq(data, 1, Len(data) - 1)>>

\* Stack.peek on a non-empty stack
Stack_peek(data) == data[Len(data)]

\* Stack.is_empty
Stack_is_empty(data) == Len(data) = 0

\* variant of reversed() that keeps the stored order
reversed_identity(lst) == lst

\* reversed(lst)
reversed(lst) == [i \in 1..Len(lst) |-> lst[Len(lst) + 1 - i]]

\* ---- bfs and dfs (adtlib/algorithms/traversal.py) ------------------------
StartNotInGraphError == "ValueError: Start node is not part of the graph"

\* variant of the scan that goes through the neighbours last to first
bfs_enqueue_unvisited_backwards(data, lst, visited) ==
  data \o SelectSeq(reversed(lst), LAMBDA nbr : nbr \notin visited)

\* for nbr in lst: if nbr not in visited: queue.enqueue(nbr)
RECURSIVE bfs_enqueue_unvisited(_, _, _)
bfs_enqueue_unvisited(data, lst, visited) ==
  IF Len(lst) = 0 THEN data
  ELSE bfs_enqueue_unvisited(
         IF Head(lst) \notin visited THEN Queue_enqueue(data, Head(lst)) ELSE data,
         Tail(lst), visited)

\* for nbr in lst: if nbr not in visited: stack.push(nbr)
RECURSIVE dfs_push_unvisited(_, _, _)
dfs_push_unvisited(data, lst, visited) ==
  IF Len(lst) = 0 THEN data
  ELSE dfs_push_unvisited(
         IF Head(lst) \notin visited THEN Stack_push(data, Head(lst)) ELSE data,
         Tail(lst), visited)

\* variant of the bfs loop body without the `if node in visited: continue`
bfs_iteration_no_skip(fr, nbrs) ==
  LET node == Queue_dequeue(fr.data)[1]
      rest == Queue_dequeue(fr.data)[2]
      seen == fr.visited \cup {node}
  IN  [fr EXCEPT !.visited = seen,
                 !.order = Append(fr.order, node),
                 !.data = bfs_enqueue_unvisited(rest, nbrs[node], seen)]

\* one iteration of the while loop of bfs, the queue not being empty
bfs_iteration(fr, nbrs) ==
  LET node == Queue_dequeue(fr.data)[1]
      rest == Queue_dequeue(fr.data)[2]
      seen == fr.visited \cup {node}
  IN  IF node \in fr.visited
      THEN [fr EXCEPT !.data = rest]
      ELSE [fr EXCEPT !.visited = seen,
                      !.order = Append(fr.order, node),
                      !.data = bfs_enqueue_unvisited(rest, nbrs[node], seen)]

\* variant of the dfs loop body without the `if node in visited: continue`
dfs_iteration_no_skip(fr, nbrs) ==
  LET node == Stack_pop(fr.data)[1]
      rest == Stack_pop(fr.data)[2]
      seen == fr.visited \cup {node}
  IN  [fr EXCEPT !.visited = seen,
                 !.order = Append(fr.order, node),
                 !.data = dfs_push_unvisited(rest, reversed(nbrs[node]), seen)]

\* one iteration of the while loop of dfs, the stack not being empty
dfs_iteration(fr, nbrs) ==
  LET node == Stack_pop(fr.data)[1]
      rest == Stack_pop(fr.data)[2]
      seen == fr.visited \cup {node}
  IN  IF node \in fr.visited
      THEN [fr EXCEPT !.data = rest]
      ELSE [fr EXCEPT !.visited = seen,
                      !.order = Append(fr.order, node),
                      !.data = dfs_push_unvisited(rest, reversed(nbrs[node]), seen)]

GraphUnchanged == UNCHANGED <<value, neighbours, nodes, node_map, weights, directed, ops>>

\* the locals of bfs when it reaches its while loop
bfs_locals(start) ==
  [fn |-> "bfs", pc |-> "loop", start |-> start,
   data |-> Queue_enqueue(<<>>, start),
   visited |-> {}, order |-> <<>>]

\* bfs(graph, start) up to its while loop
BfsBegin(start) ==
  /\ frame = NoFrame
  /\ call' = [op |-> "bfs", node1 |-> start, node2 |-> None, weight |-> None]
  /\ IF ~In(start, nodes)
     THEN /\ raised' = StartNotInGraphError
          /\ returned' = None
          /\ frame' = [NoFrame EXCEPT !.fn = "bfs", !.pc = "done", !.start = start]
     ELSE /\ raised' = "none"
          /\ returned' = <<>>   \* no list returned so far
          /\ frame' = bfs_locals(start)
  /\ GraphUnchanged

\* one iteration of `while not queue.is_empty()`
BfsStep ==
  /\ frame.fn = "bfs" /\ frame.pc = "loop"
  /\ ~Queue_is_empty(frame.data)
  /\ frame' = bfs_iteration(frame, neighbours)
  /\ UNCHANGED <<call, raised, returned>>
  /\ GraphUnchanged

\* the queue is empty: return order
BfsReturn ==
  /\ frame.fn = "bfs" /\ frame.pc = "loop"
  /\ Queue_is_empty(frame.data)
  /\ frame' = [frame EXCEPT !.pc = "done"]
  /\ returned' = frame.order
  /\ UNCHANGED <<call, raised>>
  /\ GraphUnchanged

\* the locals of dfs when it reaches its while loop
dfs_locals(start) ==
  [fn |-> "dfs", pc |-> "loop", start |-> start,
   data |-> Stack_push(<<>>, start),
   visited |-> {}, order |-> <<>>]

\* dfs(graph, start) up to its while loop
DfsBegin(start) ==
  /\ frame = NoFrame
  /\ call' = [op |-> "dfs", node1 |-> start, node2 |-> None, weight |-> None]
  /\ IF ~In(start, nodes)
     THEN /\ raised' = StartNotInGraphError
          /\ returned' = None
          /\ frame' = [NoFrame EXCEPT !.fn = "dfs", !.pc = "done", !.start = start]
     ELSE /\ raised' = "none"
          /\ returned' = <<>>   \* no list returned so far
          /\ frame' = dfs_locals(start)
  /\ GraphUnchanged

\* variant of the dfs iteration in which reversed() turns the node's own
\* list around instead of a copy of it
DfsStep_reversing_in_place ==
  /\ frame.fn = "dfs" /\ frame.pc = "loop"
  /\ ~Stack_is_empty(frame.data)
  /\ frame' = dfs_iteration(frame, neighbours)
  /\ neighbours' = [neighbours EXCEPT ![Stack_pop(frame.data)[1]] = reversed(@)]
  /\ UNCHANGED <<call, raised, returned>>
  /\ UNCHANGED <<value, nodes, node_map, weights, directed, ops>>

\* one iteration of `while not stack.is_empty()`
DfsStep ==
  /\ frame.fn = "dfs" /\ frame.pc = "loop"
  /\ ~Stack_is_empty(frame.data)
  /\ frame' = dfs_iteration(frame, neighbours)
  /\ UNCHANGED <<call, raised, returned>>
  /\ GraphUnchanged

\* the stack is empty: return order
DfsReturn ==
  /\ frame.fn = "dfs" /\ frame.pc = "loop"
  /\ Stack_is_empty(frame.data)
  /\ frame' = [frame EXCEPT !.pc = "done"]
  /\ returned' = frame.order
  /\ UNCHANGED <<call, raised>>
  /\ GraphUnchanged

\* a graph, directed or not, whose NumTravNodes nodes of distinct values
\* have been registered in order and have no edge yet
TravInit ==
  /\ frame = NoFrame
  /\ value = [n \in TravIds |-> n]
  /\ neighbours = [n \in TravIds |-> <<>>]
  /\ nodes = [i \in TravIds |-> i]
  /\ node_map = [v \in TravIds |-> v]
  /\ weights = EmptyDict
  /\ directed \in BOOLEAN
  /\ call = [op |-> "init", node1 |-> None, node2 |-> None, weight |-> None]
  /\ raised = "none"
  /\ returned = None
  /\ ops = 0

\* the client wires one more edge before it calls a traversal
BuildEdge(a, b) ==
  /\ frame = NoFrame
  /\ ops < MaxEdges
  /\ a # b /\ ~In(b, neighbours[a])
  /\ AddEdge(a, b, None)

\* the steps of a traversal that has been called
TravRun == BfsStep \/ BfsReturn \/ DfsStep \/ DfsReturn

\* The start node.  The edges are wired between any nodes in any order, so
\* the graphs built are the same up to renaming the nodes and every pair of
\* graph and registered start node is covered with the start called 1.
TravStart == 1

TravNext ==
  \/ \E a, b \in TravIds : BuildEdge(a, b)
  \/ BfsBegin(TravStart)
  \/ DfsBegin(TravStart)
  \/ BfsStep
  \/ BfsReturn
  \/ DfsStep
  \/ DfsReturn

TravSpec == TravInit /\ [][TravNext]_vars

\* a called traversal keeps running until it returns; each of its steps
\* changes frame
TravFairSpec == TravSpec /\ WF_frame(TravRun)

\* ---- PriorityQueue (adtlib/queue.py) over heapq ---------------------------
\* An entry of PriorityQueue._data is the tuple (priority, counter, item).
\* Python compares tuples left to right; counters are all different, so the
\* comparison never reaches the items.
\* variant of the comparison that looks at the counters only
TupleLess_by_counter(a, b) == a[2] < b[2]

TupleLess(a, b) == a[1] < b[1] \/ (a[1] = b[1] /\ a[2] < b[2])

\* heapq._siftdown(heap, startpos, pos) with newitem taken out of heap[pos];
\* positions count from 0 as in Python
RECURSIVE siftdown_from(_, _, _, _)
siftdown_from(heap, startpos, pos, newitem) ==
  LET parentpos == (pos - 1) \div 2
  IN  IF pos > startpos /\ TupleLess(newitem, heap[parentpos + 1])
      THEN siftdown_from([heap EXCEPT ![pos + 1] = heap[parentpos + 1]],
                         startpos, parentpos, newitem)
      ELSE [heap EXCEPT ![pos + 1] = newitem]

heapq_siftdown(heap, startpos, pos) ==
  siftdown_from(heap, startpos, pos, heap[pos + 1])

\* heapq._siftup(heap, pos) with newitem taken out of heap[pos]
RECURSIVE siftup_from(_, _, _, _)
siftup_from(heap, startpos, pos, newitem) ==
  LET endpos == Len(heap)
      childpos == 2 * pos + 1
      rightpos == childpos + 1
      smaller == IF rightpos < endpos
                    /\ ~TupleLess(heap[childpos + 1], heap[rightpos + 1])
                 THEN rightpos ELSE childpos
  IN  IF childpos < endpos
      THEN siftup_from([heap EXCEPT ![pos + 1] = heap[smaller + 1]],
                       startpos, smaller, newitem)
      ELSE heapq_siftdown([heap EXCEPT ![pos + 1] = newitem], startpos, pos)

heapq_siftup(heap, pos) == siftup_from(heap, pos, pos, heap[pos + 1])

\* heapq.heappush(heap, item)
heappush(heap, item) ==
  heapq_siftdown(Append(heap, item), 0, Len(heap))

\* heapq.heappop(heap) on a non-empty heap: <<item returned, heap left>>
heappop(heap) ==
  LET lastelt == heap[Len(heap)]
      rest == SubSeq(heap, 1, Len(heap) - 1)
  IN  IF Len(rest) > 0
      THEN <<rest[1], heapq_siftup([rest EXCEPT ![1] = lastelt], 0)>>
      ELSE <<lastelt, rest>>

\* variant of push that stores no counter to order entries of one priority
PriorityQueue_push_no_counter(data, counter, item, priority) ==
  heappush(data, <<priority, 0, item>>)

\* variant of push that stores a priority one above the one given
PriorityQueue_push_late(data, counter, item, priority) ==
  heappush(data, <<priority + 1, counter, item>>)

\* PriorityQueue.push; next(self._counter) is counter, which the caller
\* then advances
PriorityQueue_push(data, counter, item, priority) ==
  heappush(data, <<priority, counter, item>>)

\* variant of pop that leaves the entry in the queue
PriorityQueue_pop_peek(data) == <<data[1][3], data>>

\* PriorityQueue.pop on a non-empty queue: <<item returned, data left>>
PriorityQueue_pop(data) ==
  LET r == heappop(data) IN <<r[1][3], r[2]>>

\* PriorityQueue.peek on a non-empty queue
PriorityQueue_peek(data) == data[1][3]

\* PriorityQueue.is_empty
PriorityQueue_is_empty(data) == Len(data) = 0

\* ---- dijkstra (adtlib/algorithms/traversal.py) ----------------------------
\* float('inf'): above every sum of weights along a path without repeats
Infinity == NumPathNodes * MaxPathWeight + 1

\* the node that is never registered; it carries the value of node 1
Stranger == NumPathNodes + 1

\* variant of the test that lets only the first distance found stand
dijkstra_improves_first_found(distance, known) == known = Infinity

\* `distance < distances[neighbor]`
dijkstra_improves(distance, known) == distance < known

\* variant of the update that keeps a predecessor once one is recorded
dijkstra_update_keep_previous(loc, neighbor, current, distance) ==
  [loc EXCEPT !.distances = DictSet(loc.distances, neighbor, distance),
              !.previous = IF neighbor \in DOMAIN loc.previous
                           THEN loc.previous
                           ELSE DictSet(loc.previous, neighbor, current),
              !.data = PriorityQueue_push(loc.data, loc.counter, neighbor, distance),
              !.counter = loc.counter + 1]

\* the three statements under `if distance < distances[neighbor]`
dijkstra_update(loc, neighbor, current, distance) ==
  [loc EXCEPT !.distances = DictSet(loc.distances, neighbor, distance),
              !.previous = DictSet(loc.previous, neighbor, current),
              !.data = PriorityQueue_push(loc.data, loc.counter, neighbor, distance),
              !.counter = loc.counter + 1]

\* the body of `for neighbor in current.neighbours` for one neighbour;
\* err names the exception it raised, if any
dijkstra_visit_neighbour(loc, neighbor, current, current_dist) ==
  LET weight == get_edge_weight(current, neighbor)
      distance == current_dist + weight
  IN  IF ~BothInGraph(current, neighbor)
      THEN [loc EXCEPT !.err = NotInGraphError]
      ELSE IF weight = None
      THEN loc
      ELSE IF neighbor \notin DOMAIN loc.distances
      THEN [loc EXCEPT !.err = "KeyError"]
      ELSE IF dijkstra_improves(distance, loc.distances[neighbor])
      THEN dijkstra_update(loc, neighbor, current, distance)
      ELSE loc

\* `for neighbor in current.neighbours` over the neighbours left in lst;
\* an exception ends the loop.  The locals after one neighbour are computed
\* once (the one element of a set) before the rest of the loop runs on them.
RECURSIVE dijkstra_relax(_, _, _, _)
dijkstra_relax(loc, lst, current, current_dist) ==
  IF Len(lst) = 0 \/ loc.err # "none" THEN loc
  ELSE CHOOSE result \in
         {dijkstra_relax(after, Tail(lst), current, current_dist) :
            after \in {dijkstra_visit_neighbour(loc, Head(lst), current, current_dist)}} :
         TRUE

\* the rest of an iteration of `while not pq.is_empty()` once pq.pop() has
\* given popped = <<current, data left>>
dijkstra_after_pop(fr, nbrs, popped) ==
  IF popped[1] \notin DOMAIN fr.distances
  THEN [fr EXCEPT !.data = popped[2], !.err = "KeyError"]
  ELSE dijkstra_relax([fr EXCEPT !.data = popped[2]], nbrs[popped[1]],
                      popped[1], fr.distances[popped[1]])

\* one iteration of `while not pq.is_empty()` on the locals fr
dijkstra_iteration(fr, nbrs) ==
  CHOOSE result \in
    {dijkstra_after_pop(fr, nbrs, popped) : popped \in {PriorityQueue_pop(fr.data)}} :
    TRUE

\* variant of dijkstra's entry test that is on the node's value
dijkstra_start_missing_by_value(start) ==
  \A i \in 1..Len(nodes) : value[nodes[i]] # value[start]

\* `start not in graph.nodes`
dijkstra_start_missing(start) == ~In(start, nodes)

\* the locals of dijkstra when it reaches its while loop
dijkstra_locals(start) ==
  [fn |-> "dijkstra", pc |-> "loop", start |-> start,
   data |-> PriorityQueue_push(<<>>, 0, start, 0),
   visited |-> {}, order |-> <<>>,
   distances |-> DictSet([n \in {nodes[i] : i \in 1..Len(nodes)} |-> Infinity],
                         start, 0),
   previous |-> EmptyDict, counter |-> 1, err |-> "none"]

\* dijkstra(graph, start) up to its while loop
DijkstraBegin(start) ==
  /\ frame = NoFrame
  /\ call' = [op |-> "dijkstra", node1 |-> start, node2 |-> None, weight |-> None]
  /\ IF dijkstra_start_missing(start)
     THEN /\ raised' = StartNotInGraphError
          /\ returned' = None
          /\ frame' = [NoFrame EXCEPT !.fn = "dijkstra", !.pc = "done",
                                      !.start = start]
     ELSE /\ raised' = "none"
          /\ returned' = <<>>   \* no dictionary returned so far
          /\ frame' = dijkstra_locals(start)
  /\ GraphUnchanged

\* one iteration of the while loop; an exception ends the call
DijkstraStep ==
  /\ frame.fn = "dijkstra" /\ frame.pc = "loop"
  /\ ~PriorityQueue_is_empty(frame.data)
  /\ \E after \in {dijkstra_iteration(frame, neighbours)} :
       IF after.err # "none"
       THEN /\ frame' = [after EXCEPT !.pc = "done"]
            /\ raised' = after.err
       ELSE /\ frame' = after
            /\ UNCHANGED raised
  /\ UNCHANGED <<call, returned>>
  /\ GraphUnchanged

\* the priority queue is empty: return distances, previous
DijkstraReturn ==
  /\ frame.fn = "dijkstra" /\ frame.pc = "loop"
  /\ PriorityQueue_is_empty(frame.data)
  /\ frame' = [frame EXCEPT !.pc = "done"]
  /\ returned' = <<frame.distances, frame.previous>>
  /\ UNCHANGED <<call, raised>>
  /\ GraphUnchanged

\* a graph, directed or not, whose NumPathNodes nodes of distinct values
\* have been registered in order and have no edge yet, and one more node
\* that is not registered
PathInit ==
  /\ frame = NoFrame
  /\ value = [n \in PathIds \cup {Stranger} |-> IF n = Stranger THEN 1 ELSE n]
  /\ neighbours = [n \in PathIds \cup {Stranger} |-> <<>>]
  /\ nodes = [i \in PathIds |-> i]
  /\ node_map = [v \in PathIds |-> v]
  /\ weights = EmptyDict
  /\ directed \in BOOLEAN
  /\ call = [op |-> "init", node1 |-> None, node2 |-> None, weight |-> None]
  /\ raised = "none"
  /\ returned = None
  /\ ops = 0

\* the highest node that is the start or an end of some edge
HighestWired ==
  CHOOSE h \in PathIds :
    /\ h = 1 \/ Len(neighbours[h]) > 0 \/ \E m \in PathIds : In(h, neighbours[m])
    /\ \A n \in PathIds :
         (n = 1 \/ Len(neighbours[n]) > 0 \/ \E m \in PathIds : In(n, neighbours[m]))
           => n <= h

\* The client wires one more edge, weighted or not, before it calls
\* dijkstra.  The nodes other than the start are interchangeable names, so
\* they are numbered in the order in which edges first use them.
BuildWeightedEdge(a, b, w) ==
  /\ frame = NoFrame
  /\ ops < MaxPathEdges
  /\ a # b /\ ~In(b, neighbours[a])
  /\ a <= HighestWired + 1
  /\ b <= (IF a > HighestWired THEN a ELSE HighestWired) + 1
  /\ AddEdge(a, b, w)

DijkstraRun == DijkstraStep \/ DijkstraReturn

\* The registered start node; as for TravStart, every pair of graph and
\* registered start is covered with the start called 1.
PathStart == 1

PathNext ==
  \/ \E a, b \in PathIds : \E w \in PathWeights \cup {None} : BuildWeightedEdge(a, b, w)
  \/ DijkstraBegin(PathStart)
  \/ DijkstraBegin(Stranger)
  \/ BfsBegin(Stranger)
  \/ DfsBegin(Stranger)
  \/ DijkstraStep
  \/ DijkstraReturn

PathSpec == PathInit /\ [][PathNext]_vars

\* the calls of dijkstra with a registered start
DijkstraNext ==
  \/ \E a, b \in PathIds : \E w \in PathWeights \cup {None} : BuildWeightedEdge(a, b, w)
  \/ DijkstraBegin(PathStart)
  \/ DijkstraStep
  \/ DijkstraReturn

\* a called dijkstra keeps running until it returns; each of its steps
\* changes frame
PathFairSpec == PathInit /\ [][DijkstraNext]_vars /\ WF_frame(DijkstraRun)

\* ---- traversals of a graph the client has changed ------------------------
\* a graph, directed or not, whose NumNodes nodes of distinct values have
\* been registered in order
MutInit ==
  /\ frame = NoFrame
  /\ value = [n \in NodeIds |-> n]
  /\ neighbours = [n \in NodeIds |-> <<>>]
  /\ nodes = [i \in NodeIds |-> i]
  /\ node_map = [v \in NodeIds |-> v]
  /\ weights = EmptyDict
  /\ directed \in BOOLEAN
  /\ call = [op |-> "init", node1 |-> None, node2 |-> None, weight |-> None]
  /\ raised = "none"
  /\ returned = None
  /\ ops = 0

\* one more Graph call that can change the graph, before any traversal
Mutate ==
  /\ frame = NoFrame
  /\ ops < MaxMutOps
  /\ \/ \E n \in NodeIds : AddNode(n)
     \/ \E n \in NodeIds : RemoveNode(n)
     \/ \E a, b \in NodeIds : \E w \in Weights \cup {None} : AddEdge(a, b, w)
     \/ \E a, b \in NodeIds : RemoveEdge(a, b)
     \/ \E a, b \in NodeIds : \E w \in Weights : SetEdgeWeight(a, b, w)

\* The client keeps what the call that just ended raised and returned (the
\* field `first` of frame) and calls the same function again with the same
\* graph and start.
CallAgain ==
  /\ frame.pc = "done"
  /\ "first" \notin DOMAIN frame
  /\ LET kept == [first |-> [raised |-> raised, returned |-> returned]]
         missing == IF frame.fn = "dijkstra"
                    THEN dijkstra_start_missing(frame.start)
                    ELSE ~In(frame.start, nodes)
     IN  IF missing
         THEN /\ raised' = StartNotInGraphError
              /\ returned' = None
              /\ frame' = [NoFrame EXCEPT !.fn = frame.fn, !.pc = "done",
                                          !.start = frame.start] @@ kept
         ELSE /\ raised' = "none"
              /\ returned' = <<>>
              /\ frame' = (CASE frame.fn = "bfs" -> bfs_locals(frame.start)
                             [] frame.fn = "dfs" -> dfs_locals(frame.start)
                             [] OTHER -> dijkstra_locals(frame.start)) @@ kept
  /\ UNCHANGED call
  /\ GraphUnchanged

MutNext ==
  \/ Mutate
  \/ \E n \in NodeIds : BfsBegin(n)
  \/ \E n \in NodeIds : DfsBegin(n)
  \/ \E n \in NodeIds : DijkstraBegin(n)
  \/ BfsStep
  \/ BfsReturn
  \/ DfsStep
  \/ DfsReturn
  \/ DijkstraStep
  \/ DijkstraReturn

MutSpec == MutInit /\ [][MutNext]_vars

\* a graph is built, then one of the three functions is called twice
RepeatNext ==
  \/ /\ ops < MaxRepeatEdges
     /\ \E a, b \in PathIds : \E w \in PathWeights \cup {None} : BuildWeightedEdge(a, b, w)
  \/ \E n \in {PathStart, Stranger} : BfsBegin(n)
  \/ \E n \in {PathStart, Stranger} : DfsBegin(n)
  \/ \E n \in {PathStart, Stranger} : DijkstraBegin(n)
  \/ BfsStep
  \/ BfsReturn
  \/ DfsStep
  \/ DfsReturn
  \/ DijkstraStep
  \/ DijkstraReturn
  \/ CallAgain

RepeatSpec == PathInit /\ [][RepeatNext]_vars

\* ---- the containers called directly --------------------------------------
\* A client holds a Queue, a Stack and a PriorityQueue; frame keeps the three
\* _data fields, the PriorityQueue's _counter (the value next() gives next)
\* and the number of items the client has made.  Every item handed to a
\* container is a new one: item k is the k-th the client made.
Priorities == 0..MaxPriority

QueueDequeueEmptyError == "IndexError: Cannot dequeue from empty Queue"
QueuePeekEmptyError == "IndexError: Cannot peek from empty Queue"
StackPopEmptyError == "IndexError: Cannot pop from empty Stack"
StackPeekEmptyError == "IndexError: Cannot peek from empty Stack"
PriorityQueuePopEmptyError == "IndexError: Cannot pop from empty PriorityQueue"
PriorityQueuePeekEmptyError == "IndexError: Cannot peek from empty PriorityQueue"

ClientCalled(op, item, priority) ==
  /\ frame.fn = "client"
  /\ ops < MaxContainerOps
  /\ ops' = ops + 1
  /\ call' = [op |-> op, node1 |-> item, node2 |-> None, weight |-> priority]
  /\ UNCHANGED <<value, neighbours, nodes, node_map, weights, directed>>

\* Queue.enqueue
QueueEnqueue ==
  /\ ClientCalled("Queue.enqueue", frame.made + 1, None)
  /\ frame' = [frame EXCEPT !.queue = Queue_enqueue(frame.queue, frame.made + 1),
                            !.made = frame.made + 1]
  /\ raised' = "none"
  /\ returned' = None

\* Queue.dequeue
QueueDequeue ==
  /\ ClientCalled("Queue.dequeue", None, None)
  /\ IF Queue_is_empty(frame.queue)
     THEN /\ raised' = QueueDequeueEmptyError
          /\ returned' = None
          /\ UNCHANGED frame
     ELSE /\ raised' = "none"
          /\ returned' = Queue_dequeue(frame.queue)[1]
          /\ frame' = [frame EXCEPT !.queue = Queue_dequeue(frame.queue)[2]]

\* variant of Queue.peek that returns None when the queue is empty
QueuePeek_swallowed ==
  /\ ClientCalled("Queue.peek", None, None)
  /\ raised' = "none"
  /\ returned' = IF Queue_is_empty(frame.queue) THEN None ELSE Queue_peek(frame.queue)
  /\ UNCHANGED frame

\* Queue.peek
QueuePeek ==
  /\ ClientCalled("Queue.peek", None, None)
  /\ IF Queue_is_empty(frame.queue)
     THEN /\ raised' = QueuePeekEmptyError
          /\ returned' = None
     ELSE /\ raised' = "none"
          /\ returned' = Queue_peek(frame.queue)
  /\ UNCHANGED frame

\* Stack.push
StackPush ==
  /\ ClientCalled("Stack.push", frame.made + 1, None)
  /\ frame' = [frame EXCEPT !.stack = Stack_push(frame.stack, frame.made + 1),
                            !.made = frame.made + 1]
  /\ raised' = "none"
  /\ returned' = None

\* Stack.pop
StackPop ==
  /\ ClientCalled("Stack.pop", None, None)
  /\ IF Stack_is_empty(frame.stack)
     THEN /\ raised' = StackPopEmptyError
          /\ returned' = None
          /\ UNCHANGED frame
     ELSE /\ raised' = "none"
          /\ returned' = Stack_pop(frame.stack)[1]
          /\ frame' = [frame EXCEPT !.stack = Stack_pop(frame.stack)[2]]

\* Stack.peek
StackPeek ==
  /\ ClientCalled("Stack.peek", None, None)
  /\ IF Stack_is_empty(frame.stack)
     THEN /\ raised' = StackPeekEmptyError
          /\ returned' = None
     ELSE /\ raised' = "none"
          /\ returned' = Stack_peek(frame.stack)
  /\ UNCHANGED frame

\* PriorityQueue.push
PriorityQueuePush(priority) ==
  /\ ClientCalled("PriorityQueue.push", frame.made + 1, priority)
  /\ frame' = [frame EXCEPT !.pq = PriorityQueue_push(frame.pq, frame.counter,
                                                      frame.made + 1, priority),
                            !.counter = frame.counter + 1,
                            !.made = frame.made + 1]
  /\ raised' = "none"
  /\ returned' = None

\* PriorityQueue.pop
PriorityQueuePop ==
  /\ ClientCalled("PriorityQueue.pop", None, None)
  /\ IF PriorityQueue_is_empty(frame.pq)
     THEN /\ raised' = PriorityQueuePopEmptyError
          /\ returned' = None
          /\ UNCHANGED frame
     ELSE /\ raised' = "none"
          /\ returned' = PriorityQueue_pop(frame.pq)[1]
          /\ frame' = [frame EXCEPT !.pq = PriorityQueue_pop(frame.pq)[2]]

\* PriorityQueue.peek
PriorityQueuePeek ==
  /\ ClientCalled("PriorityQueue.peek", None, None)
  /\ IF PriorityQueue_is_empty(frame.pq)
     THEN /\ raised' = PriorityQueuePeekEmptyError
          /\ returned' = None
     ELSE /\ raised' = "none"
          /\ returned' = PriorityQueue_peek(frame.pq)
  /\ UNCHANGED frame

\* the three containers as their constructors leave them; no graph
ContainerInit ==
  /\ frame = [fn |-> "client", pc |-> "idle", start |-> None,
              queue |-> <<>>, stack |-> <<>>, pq |-> <<>>,
              counter |-> 0, made |-> 0]
  /\ value = EmptyDict
  /\ neighbours = EmptyDict
  /\ nodes = <<>>
  /\ node_map = EmptyDict
  /\ weights = EmptyDict
  /\ directed = FALSE
  /\ call = [op |-> "init", node1 |-> None, node2 |-> None, weight |-> None]
  /\ raised = "none"
  /\ returned = None
  /\ ops = 0

ContainerNext ==
  \/ QueueEnqueue
  \/ QueueDequeue
  \/ QueuePeek
  \/ StackPush
  \/ StackPop
  \/ StackPeek
  \/ \E priority \in Priorities : PriorityQueuePush(priority)
  \/ PriorityQueuePop
  \/ PriorityQueuePeek

ContainerSpec == ContainerInit /\ [][ContainerNext]_vars

\* ---- BinarySearchTree (adtlib/tree.py) over TreeNode ----------------------
\* A client holds one BinarySearchTree.  TreeNode objects are numbered in the
\* order insert constructed them; frame keeps their _value, _left and _right
\* fields (val, left, right, indexed by node), the tree's _root, the values
\* the client has given to insert, and, while list(tree.inorder()) runs, the
\* chain of generators (each with its node argument and its position) and
\* the nodes yielded so far.
Keys == 0..(NumKeys - 1)

\* generators the interpreter lets one delegate to the next (yield from)
\* before it raises RecursionError; deeper than any tree the client can build
RecursionLimit == MaxTreeOps + 3

RecursionError == "RecursionError: maximum recursion depth exceeded"

\* TreeNode(val): a new node, no children
TreeNode(tree, val) ==
  [tree EXCEPT !.val = Append(@, val),
               !.left = Append(@, None),
               !.right = Append(@, None)]

\* _insert(node, val) of BinarySearchTree.insert: <<the tree, the node returned>>
RECURSIVE _insert(_, _, _)
_insert(tree, node, val) ==
  IF node = None
  THEN <<TreeNode(tree, val), Len(tree.val) + 1>>
  ELSE IF val < tree.val[node]
  THEN LET below == _insert(tree, tree.left[node], val)
       IN  <<[below[1] EXCEPT !.left[node] = below[2]], node>>
  ELSE IF val > tree.val[node]
  THEN LET below == _insert(tree, tree.right[node], val)
       IN  <<[below[1] EXCEPT !.right[node] = below[2]], node>>
  ELSE <<tree, node>>

\* variant of BinarySearchTree.insert that does not assign the root
BinarySearchTree_insert_root_kept(tree, val) ==
  _insert(tree, tree.root, val)[1]

\* BinarySearchTree.insert
BinarySearchTree_insert(tree, val) ==
  LET top == _insert(tree, tree.root, val)
  IN  [top[1] EXCEPT !.root = top[2]]

\* the loop of BinarySearchTree.search, entered with node
RECURSIVE search_loop(_, _, _)
search_loop(tree, node, val) ==
  IF node = None
  THEN None
  ELSE IF val = tree.val[node]
  THEN node
  ELSE search_loop(tree,
                   IF val < tree.val[node] THEN tree.left[node]
                                           ELSE tree.right[node],
                   val)

\* BinarySearchTree.search
BinarySearchTree_search(tree, val) == search_loop(tree, tree.root, val)

TreeCalled(op, val) ==
  /\ frame.fn = "tree"
  /\ frame.pc = "idle"
  /\ ops < MaxTreeOps
  /\ ops' = ops + 1
  /\ call' = [op |-> op, node1 |-> val, node2 |-> None, weight |-> None]
  /\ UNCHANGED <<value, neighbours, nodes, node_map, weights, directed>>

\* tree.insert(val)
BinarySearchTreeInsert(val) ==
  /\ TreeCalled("BinarySearchTree.insert", val)
  /\ frame' = [BinarySearchTree_insert(frame, val)
                 EXCEPT !.inserted = @ \cup {val}]
  /\ raised' = "none"
  /\ returned' = None

\* tree.search(val)
BinarySearchTreeSearch(val) ==
  /\ TreeCalled("BinarySearchTree.search", val)
  /\ raised' = "none"
  /\ returned' = BinarySearchTree_search(frame, val)
  /\ UNCHANGED frame

\* list(tree.inorder()): the generator inorder(None) is made, not yet run
BinarySearchTreeInorder ==
  /\ TreeCalled("BinarySearchTree.inorder", None)
  /\ frame' = [frame EXCEPT !.pc = "inorder",
                            !.stack = <<[node |-> None, pc |-> "entry"]>>,
                            !.yielded = <<>>]
  /\ raised' = "none"
  /\ returned' = <<>>

\* the innermost generator returns: the one that delegated to it goes on,
\* and when there is none list() has its result
inorder_return(fr) ==
  IF Len(fr.stack) = 1
  THEN [fr EXCEPT !.pc = "done", !.stack = <<>>]
  ELSE [fr EXCEPT !.stack = SubSeq(@, 1, Len(@) - 1)]

\* the innermost generator, now at position pc, delegates to
\* self.inorder(child); one generator too many raises RecursionError, which
\* no generator catches
inorder_delegate(fr, node, pc, child) ==
  IF Len(fr.stack) >= RecursionLimit
  THEN [fr EXCEPT !.pc = "raised", !.stack = <<>>]
  ELSE [fr EXCEPT !.stack = Append([@ EXCEPT ![Len(@)] = [node |-> node, pc |-> pc]],
                                   [node |-> child, pc |-> "entry"])]

\* one step of the innermost generator of BinarySearchTree.inorder
inorder_step(fr) ==
  LET top == fr.stack[Len(fr.stack)]
      node == IF top.node # None THEN top.node ELSE fr.root
  IN  IF top.pc = "entry"
      THEN IF node = None
           THEN inorder_return(fr)
           ELSE inorder_delegate(fr, node, "left", fr.left[node])
      ELSE IF top.pc = "left"
      THEN [fr EXCEPT !.yielded = Append(@, top.node),
                      !.stack[Len(fr.stack)].pc = "self"]
      ELSE IF top.pc = "self"
      THEN inorder_delegate(fr, top.node, "right", fr.right[top.node])
      ELSE inorder_return(fr)

InorderStep ==
  /\ frame.fn = "tree"
  /\ frame.pc = "inorder"
  /\ frame' = [inorder_step(frame) EXCEPT !.pc = IF @ = "raised" THEN "done" ELSE @]
  /\ raised' = IF inorder_step(frame).pc = "raised" THEN RecursionError ELSE "none"
  /\ returned' = IF inorder_step(frame).pc = "done"
                 THEN inorder_step(frame).yielded
                 ELSE <<>>
  /\ UNCHANGED <<value, neighbours, nodes, node_map, weights, directed, call, ops>>

\* an empty tree, as the constructor leaves it; no graph
TreeInit ==
  /\ frame = [fn |-> "tree", pc |-> "idle", start |-> None,
              root |-> None, val |-> <<>>, left |-> <<>>, right |-> <<>>,
              inserted |-> {}, stack |-> <<>>, yielded |-> <<>>]
  /\ value = EmptyDict
  /\ neighbours = EmptyDict
  /\ nodes = <<>>
  /\ node_map = EmptyDict
  /\ weights = EmptyDict
  /\ directed = FALSE
  /\ call = [op |-> "init", node1 |-> None, node2 |-> None, weight |-> None]
  /\ raised = "none"
  /\ returned = None
  /\ ops = 0

TreeNext ==
  \/ \E val \in Keys : BinarySearchTreeInsert(val)
  \/ \E val \in Keys : BinarySearchTreeSearch(val)
  \/ BinarySearchTreeInorder
  \/ InorderStep

TreeSpec == TreeInit /\ [][TreeNext]_vars

\* ---- the linked lists (adtlib/linkedlist.py) over LinkedNode ---------------
\* A client holds one list, of one of the three classes.  LinkedNode objects
\* are numbered in the order the list constructed them; frame keeps their
\* _value, _previous and _next fields (val, previous, next, indexed by
\* node), the list's _head, _tail and _size, the exception the call in
\* progress has raised (err) and the value it returns (ret).  frame.ref is
\* the client's own record: a sequence to which it does what it asked of
\* the list.
ListClasses == {"SinglyLinkedList", "DoublyLinkedList", "CircularLinkedList"}

PopEmptyError(class) ==
  CASE class = "SinglyLinkedList" -> "IndexError: Pop from empty SinglyLinkedList"
    [] class = "DoublyLinkedList" -> "IndexError: Pop from empty DoublyLinkedList"
    [] class = "CircularLinkedList" -> "IndexError: Pop from empty CircularLinkedList"

SelfLinkError == "ValueError: A node cannot link to itself"

\* the statements after one that raised are not executed
unless_raised(l, after) == IF l.err # "none" THEN l ELSE after

\* LinkedNode(val): a new node, linked to nothing
LinkedNode(l, val) ==
  [l EXCEPT !.val = Append(@, val),
            !.previous = Append(@, None),
            !.next = Append(@, None)]

\* LinkedNode.previous setter: self.previous = node
LinkedNode_set_previous(l, self, node) ==
  IF node = self
  THEN [l EXCEPT !.err = SelfLinkError]
  ELSE LET old == l.previous[self]
           unlinked == IF old # None /\ l.next[old] = self
                       THEN [l EXCEPT !.next[old] = None]
                       ELSE l
           linked == [unlinked EXCEPT !.previous[self] = node]
       IN  IF node # None /\ linked.next[node] # self
           THEN [linked EXCEPT !.next[node] = self]
           ELSE linked

\* LinkedNode.next setter (and add_next): self.next = node
LinkedNode_set_next(l, self, node) ==
  IF node = self
  THEN [l EXCEPT !.err = SelfLinkError]
  ELSE LET old == l.next[self]
           unlinked == IF old # None /\ l.previous[old] = self
                       THEN [l EXCEPT !.previous[old] = None]
                       ELSE l
           linked == [unlinked EXCEPT !.next[self] = node]
       IN  IF node # None /\ linked.previous[node] # self
           THEN [linked EXCEPT !.previous[node] = self]
           ELSE linked

\* __iter__ of SinglyLinkedList and of DoublyLinkedList, from current on:
\* while current: yield current.value; current = current.next
RECURSIVE iter_from(_, _)
iter_from(l, current) ==
  IF current = None
  THEN <<>>
  ELSE <<l.val[current]>> \o iter_from(l, l.next[current])

\* __iter__ of CircularLinkedList, from current on:
\* while current and count < self._size: yield current.value; ...
RECURSIVE iter_counted(_, _, _)
iter_counted(l, current, count) ==
  IF current # None /\ count < l.size
  THEN <<l.val[current]>> \o iter_counted(l, l.next[current], count + 1)
  ELSE <<>>

\* while current.next is not self.tail: current = current.next
RECURSIVE before_tail(_, _)
before_tail(l, current) ==
  IF l.next[current] = l.tail
  THEN current
  ELSE before_tail(l, l.next[current])

SinglyLinkedList_append(l, val) ==
  LET made == LinkedNode(l, val)
      node == Len(l.val) + 1
  IN  IF made.head = None
      THEN [made EXCEPT !.head = node, !.tail = node, !.size = @ + 1]
      ELSE LET linked == LinkedNode_set_next(made, made.tail, node)
           IN  unless_raised(linked, [linked EXCEPT !.tail = node, !.size = @ + 1])

SinglyLinkedList_prepend(l, val) ==
  LET made == LinkedNode(l, val)
      node == Len(l.val) + 1
  IN  IF made.head = None
      THEN [made EXCEPT !.head = node, !.tail = node, !.size = @ + 1]
      ELSE LET linked == LinkedNode_set_next(made, node, made.head)
           IN  unless_raised(linked, [linked EXCEPT !.head = node, !.size = @ + 1])

SinglyLinkedList_pop_front(l) ==
  IF l.size = 0
  THEN [l EXCEPT !.err = PopEmptyError("SinglyLinkedList")]
  ELSE LET moved == [l EXCEPT !.head = l.next[l.head]]
       IN  [moved EXCEPT !.tail = IF moved.head = None THEN None ELSE @,
                         !.size = @ - 1,
                         !.ret = l.val[l.head]]

\* variant of SinglyLinkedList.pop_back that moves the tail and leaves the
\* node it removed linked behind it
SinglyLinkedList_pop_back_uncut(l) ==
  IF l.size = 0
  THEN [l EXCEPT !.err = PopEmptyError("SinglyLinkedList")]
  ELSE IF l.head = l.tail
  THEN [l EXCEPT !.head = None, !.tail = None,
                 !.size = @ - 1, !.ret = l.val[l.tail]]
  ELSE [l EXCEPT !.tail = before_tail(l, l.head),
                 !.size = @ - 1, !.ret = l.val[l.tail]]

SinglyLinkedList_pop_back(l) ==
  IF l.size = 0
  THEN [l EXCEPT !.err = PopEmptyError("SinglyLinkedList")]
  ELSE IF l.head = l.tail
  THEN [l EXCEPT !.head = None, !.tail = None,
                 !.size = @ - 1, !.ret = l.val[l.tail]]
  ELSE LET current == before_tail(l, l.head)
           cut == LinkedNode_set_next(l, current, None)
       IN  unless_raised(cut, [cut EXCEPT !.tail = current,
                                          !.size = @ - 1,
                                          !.ret = l.val[l.tail]])

DoublyLinkedList_append(l, val) ==
  LET made == LinkedNode(l, val)
      node == Len(l.val) + 1
  IN  IF made.head = None
      THEN [made EXCEPT !.head = node, !.tail = node, !.size = @ + 1]
      ELSE LET back == LinkedNode_set_previous(made, node, made.tail)
               forth == unless_raised(back, LinkedNode_set_next(back, back.tail, node))
           IN  unless_raised(forth, [forth EXCEPT !.tail = node, !.size = @ + 1])

DoublyLinkedList_prepend(l, val) ==
  LET made == LinkedNode(l, val)
      node == Len(l.val) + 1
  IN  IF made.head = None
      THEN [made EXCEPT !.head = node, !.tail = node, !.size = @ + 1]
      ELSE LET forth == LinkedNode_set_next(made, node, made.head)
               back == unless_raised(forth, LinkedNode_set_previous(forth, forth.head, node))
           IN  unless_raised(back, [back EXCEPT !.head = node, !.size = @ + 1])

DoublyLinkedList_pop_front(l) ==
  IF l.size = 0
  THEN [l EXCEPT !.err = PopEmptyError("DoublyLinkedList")]
  ELSE LET moved == [l EXCEPT !.head = l.next[l.head]]
           cut == IF moved.head # None
                  THEN LinkedNode_set_previous(moved, moved.head, None)
                  ELSE [moved EXCEPT !.tail = None]
       IN  unless_raised(cut, [cut EXCEPT !.size = @ - 1, !.ret = l.val[l.head]])

DoublyLinkedList_pop_back(l) ==
  IF l.size = 0
  THEN [l EXCEPT !.err = PopEmptyError("DoublyLinkedList")]
  ELSE LET moved == [l EXCEPT !.tail = l.previous[l.tail]]
           cut == IF moved.tail # None
                  THEN LinkedNode_set_next(moved, moved.tail, None)
                  ELSE [moved EXCEPT !.head = None]
       IN  unless_raised(cut, [cut EXCEPT !.size = @ - 1, !.ret = l.val[l.tail]])

CircularLinkedList_append(l, val) ==
  LET made == LinkedNode(l, val)
      node == Len(l.val) + 1
  IN  IF made.size = 0
      THEN [made EXCEPT !.head = node, !.tail = node,
                        !.next[node] = node, !.size = @ + 1]
      ELSE [made EXCEPT !.next[node] = made.head,
                        !.next[made.tail] = node,
                        !.tail = node, !.size = @ + 1]

CircularLinkedList_prepend(l, val) ==
  LET made == LinkedNode(l, val)
      node == Len(l.val) + 1
  IN  IF made.size = 0
      THEN [made EXCEPT !.head = node, !.tail = node,
                        !.next[node] = node, !.size = @ + 1]
      ELSE [made EXCEPT !.next[node] = made.head,
                        !.next[made.tail] = node,
                        !.head = node, !.size = @ + 1]

CircularLinkedList_pop_front(l) ==
  IF l.size = 0
  THEN [l EXCEPT !.err = PopEmptyError("CircularLinkedList")]
  ELSE IF l.head = l.tail
  THEN [l EXCEPT !.head = None, !.tail = None,
                 !.size = @ - 1, !.ret = l.val[l.head]]
  ELSE [l EXCEPT !.head = l.next[l.head],
                 !.next[l.tail] = l.next[l.head],
                 !.size = @ - 1, !.ret = l.val[l.head]]

CircularLinkedList_pop_back(l) ==
  IF l.size = 0
  THEN [l EXCEPT !.err = PopEmptyError("CircularLinkedList")]
  ELSE IF l.head = l.tail
  THEN [l EXCEPT !.head = None, !.tail = None,
                 !.size = @ - 1, !.ret = l.val[l.tail]]
  ELSE LET current == before_tail(l, l.head)
       IN  [l EXCEPT !.next[current] = l.head,
                     !.tail = current,
                     !.size = @ - 1, !.ret = l.val[l.tail]]

\* the value of the item the client makes next: every item is a new one
NewItem(l) == 10 * (Len(l.val) + 1)

\* the client calls op on its list; after is the list's state after the
\* call and ref the client's record after it
ListCalled(op, item, after, ref) ==
  /\ frame.fn \in ListClasses
  /\ ops < MaxListOps
  /\ ops' = ops + 1
  /\ call' = [op |-> op, node1 |-> item, node2 |-> None, weight |-> None]
  /\ frame' = [after EXCEPT !.ref = ref]
  /\ raised' = after.err
  /\ returned' = after.ret
  /\ UNCHANGED <<value, neighbours, nodes, node_map, weights, directed>>

\* the list as the call in progress finds it
Entered == [frame EXCEPT !.err = "none", !.ret = None]

\* lst.append(item)
ListAppend ==
  ListCalled("append", NewItem(frame),
             CASE frame.fn = "SinglyLinkedList" -> SinglyLinkedList_append(Entered, NewItem(frame))
               [] frame.fn = "DoublyLinkedList" -> DoublyLinkedList_append(Entered, NewItem(frame))
               [] frame.fn = "CircularLinkedList" -> CircularLinkedList_append(Entered, NewItem(frame)),
             Append(frame.ref, NewItem(frame)))

\* lst.prepend(item)
ListPrepend ==
  ListCalled("prepend", NewItem(frame),
             CASE frame.fn = "SinglyLinkedList" -> SinglyLinkedList_prepend(Entered, NewItem(frame))
               [] frame.fn = "DoublyLinkedList" -> DoublyLinkedList_prepend(Entered, NewItem(frame))
               [] frame.fn = "CircularLinkedList" -> CircularLinkedList_prepend(Entered, NewItem(frame)),
             <<NewItem(frame)>> \o frame.ref)

\* lst.pop_front()
ListPopFront ==
  ListCalled("pop_front", None,
             CASE frame.fn = "SinglyLinkedList" -> SinglyLinkedList_pop_front(Entered)
               [] frame.fn = "DoublyLinkedList" -> DoublyLinkedList_pop_front(Entered)
               [] frame.fn = "CircularLinkedList" -> CircularLinkedList_pop_front(Entered),
             IF frame.ref = <<>> THEN <<>> ELSE Tail(frame.ref))

\* lst.pop_back()
ListPopBack ==
  ListCalled("pop_back", None,
             CASE frame.fn = "SinglyLinkedList" -> SinglyLinkedList_pop_back(Entered)
               [] frame.fn = "DoublyLinkedList" -> DoublyLinkedList_pop_back(Entered)
               [] frame.fn = "CircularLinkedList" -> CircularLinkedList_pop_back(Entered),
             IF frame.ref = <<>> THEN <<>> ELSE SubSeq(frame.ref, 1, Len(frame.ref) - 1))

\* len(lst)
ListLen ==
  ListCalled("len", None, [Entered EXCEPT !.ret = frame.size], frame.ref)

\* list(lst)
ListIter ==
  ListCalled("iter", None,
             [Entered EXCEPT !.ret =
                CASE frame.fn = "SinglyLinkedList" -> iter_from(frame, frame.head)
                  [] frame.fn = "DoublyLinkedList" -> iter_from(frame, frame.head)
                  [] frame.fn = "CircularLinkedList" -> iter_counted(frame, frame.head, 0)],
             frame.ref)

\* an empty list of one of the three classes; no graph
ListInit ==
  /\ \E class \in ListClasses :
       frame = [fn |-> class, pc |-> "idle", start |-> None,
                head |-> None, tail |-> None, size |-> 0,
                val |-> <<>>, previous |-> <<>>, next |-> <<>>,
                err |-> "none", ret |-> None, ref |-> <<>>]
  /\ value = EmptyDict
  /\ neighbours = EmptyDict
  /\ nodes = <<>>
  /\ node_map = EmptyDict
  /\ weights = EmptyDict
  /\ directed = FALSE
  /\ call = [op |-> "init", node1 |-> None, node2 |-> None, weight |-> None]
  /\ raised = "none"
  /\ returned = None
  /\ ops = 0

ListNext ==
  \/ ListAppend
  \/ ListPrepend
  \/ ListPopFront
  \/ ListPopBack
  \/ ListLen
  \/ ListIter

ListSpec == ListInit /\ [][ListNext]_vars

\* ---- the sorting functions (adtlib/algorithms/sorting.py) ------------------
\* A client holds one list of numbers and calls the sorting functions on it.
\* List objects are numbered in the order they were made: frame.lists[k] is
\* the contents of object k, object 1 is the client's list, and a function
\* returns the number of the object it returns.  A Python index j is the
\* position j + 1 of the sequence.
Numbers == 0..MaxNumber

RECURSIVE ListsOfLen(_)
ListsOfLen(n) ==
  IF n = 0
  THEN {<<>>}
  ELSE {Append(lst, x) : lst \in ListsOfLen(n - 1), x \in Numbers}

InputLists == UNION {ListsOfLen(n) : n \in 0..MaxLen}

\* arr[a], arr[b] = arr[b], arr[a]
swap(arr, a, b) == [arr EXCEPT ![a + 1] = arr[b + 1], ![b + 1] = arr[a + 1]]

\* for j in range(j, stop): if arr[j] > arr[j + 1]: swap them
RECURSIVE bubble_pass(_, _, _)
bubble_pass(arr, j, stop) ==
  IF j >= stop
  THEN arr
  ELSE bubble_pass(IF arr[j + 1] > arr[j + 2] THEN swap(arr, j, j + 1) ELSE arr,
                   j + 1, stop)

\* for i in range(i, n): one pass over arr[0 .. n - i - 1]
RECURSIVE bubble_passes(_, _, _)
bubble_passes(arr, i, n) ==
  IF i >= n
  THEN arr
  ELSE bubble_passes(bubble_pass(arr, 0, n - i - 1), i + 1, n)

\* variant of bubble_sort that sorts the list it was given
bubble_sort_in_place(lists, arr) ==
  <<[lists EXCEPT ![arr] = bubble_passes(lists[arr], 0, Len(lists[arr]))], arr>>

\* bubble_sort: <<the list objects, the object returned>>
bubble_sort(lists, arr) ==
  <<Append(lists, bubble_passes(lists[arr], 0, Len(lists[arr]))), Len(lists) + 1>>

\* for j in range(j, n): if arr[j] < arr[min_idx]: min_idx = j
RECURSIVE selection_min_idx(_, _, _, _)
selection_min_idx(arr, j, n, min_idx) ==
  IF j >= n
  THEN min_idx
  ELSE selection_min_idx(arr, j + 1, n,
                         IF arr[j + 1] < arr[min_idx + 1] THEN j ELSE min_idx)

\* for i in range(i, n): swap arr[i] with the least of arr[i .. n - 1]
RECURSIVE selection_passes(_, _, _)
selection_passes(arr, i, n) ==
  IF i >= n
  THEN arr
  ELSE selection_passes(swap(arr, i, selection_min_idx(arr, i + 1, n, i)),
                        i + 1, n)

\* selection_sort: <<the list objects, the object returned>>
selection_sort(lists, arr) ==
  <<Append(lists, selection_passes(lists[arr], 0, Len(lists[arr]))), Len(lists) + 1>>

\* while j >= 0 and arr[j] > key: arr[j + 1] = arr[j]; j -= 1
\* and then arr[j + 1] = key
RECURSIVE insertion_shift(_, _, _)
insertion_shift(arr, j, key) ==
  IF j >= 0 /\ arr[j + 1] > key
  THEN insertion_shift([arr EXCEPT ![j + 2] = arr[j + 1]], j - 1, key)
  ELSE [arr EXCEPT ![j + 2] = key]

\* for i in range(i, len(arr)): put arr[i] in its place among arr[0 .. i - 1]
RECURSIVE insertion_passes(_, _)
insertion_passes(arr, i) ==
  IF i >= Len(arr)
  THEN arr
  ELSE insertion_passes(insertion_shift(arr, i - 1, arr[i + 1]), i + 1)

\* insertion_sort: <<the list objects, the object returned>>
insertion_sort(lists, arr) ==
  <<Append(lists, insertion_passes(lists[arr], 1)), Len(lists) + 1>>

\* the merging loop of merge_sort and the two extend calls after it
RECURSIVE merge_loop(_, _, _, _, _)
merge_loop(left, right, i, j, result) ==
  IF i < Len(left) /\ j < Len(right)
  THEN IF left[i + 1] < right[j + 1]
       THEN merge_loop(left, right, i + 1, j, Append(result, left[i + 1]))
       ELSE merge_loop(left, right, i, j + 1, Append(result, right[j + 1]))
  ELSE result \o SubSeq(left, i + 1, Len(left)) \o SubSeq(right, j + 1, Len(right))

\* merge_sort: <<the list objects, the object returned>>; the two slices,
\* the two sorted halves and the result are new objects
RECURSIVE merge_sort(_, _)
merge_sort(lists, arr) ==
  IF Len(lists[arr]) <= 1
  THEN <<Append(lists, lists[arr]), Len(lists) + 1>>
  ELSE LET mid == Len(lists[arr]) \div 2
           sliced == Append(Append(lists, SubSeq(lists[arr], 1, mid)),
                            SubSeq(lists[arr], mid + 1, Len(lists[arr])))
           left == merge_sort(sliced, Len(lists) + 1)
           right == merge_sort(left[1], Len(lists) + 2)
           result == merge_loop(right[1][left[2]], right[1][right[2]], 0, 0, <<>>)
       IN  <<Append(right[1], result), Len(right[1]) + 1>>

\* the client calls a sorting function on its list; sorted is what the
\* function gives
SortCalled(op, sorted) ==
  /\ frame.fn = "sorting"
  /\ ops < MaxSortCalls
  /\ ops' = ops + 1
  /\ call' = [op |-> op, node1 |-> 1, node2 |-> None, weight |-> None]
  /\ frame' = [frame EXCEPT !.lists = sorted[1]]
  /\ raised' = "none"
  /\ returned' = sorted[2]
  /\ UNCHANGED <<value, neighbours, nodes, node_map, weights, directed>>

BubbleSort == SortCalled("bubble_sort", bubble_sort(frame.lists, 1))

SelectionSort == SortCalled("selection_sort", selection_sort(frame.lists, 1))

InsertionSort == SortCalled("insertion_sort", insertion_sort(frame.lists, 1))

MergeSort == SortCalled("merge_sort", merge_sort(frame.lists, 1))

\* the client's list is any list of numbers; no graph
SortInit ==
  /\ \E arr \in InputLists :
       frame = [fn |-> "sorting", pc |-> "idle", start |-> None, lists |-> <<arr>>]
  /\ value = EmptyDict
  /\ neighbours = EmptyDict
  /\ nodes = <<>>
  /\ node_map = EmptyDict
  /\ weights = EmptyDict
  /\ directed = FALSE
  /\ call = [op |-> "init", node1 |-> None, node2 |-> None, weight |-> None]
  /\ raised = "none"
  /\ returned = None
  /\ ops = 0

SortNext ==
  \/ BubbleSort
  \/ SelectionSort
  \/ InsertionSort
  \/ MergeSort

SortSpec == SortInit /\ [][SortNext]_vars

\* ---- properties ---------------------------------------------------------
Registered(n) == In(n, nodes)
EdgeOps == {"add_edge", "remove_edge", "set_edge_weight", "get_edge_weight"}

\* C1: in an undirected graph the neighbour relation among registered nodes
\* is symmetric in every reachable state.
C1_NeighbourSymmetry ==
  ~directed =>
    \A a, b \in NodeIds :
      (Registered(a) /\ Registered(b)) =>
        (In(b, neighbours[a]) <=> In(a, neighbours[b]))

\* C2: every key (a, b) of the weight table has both a and b registered.
C2_WeightKeysRegistered ==
  \A k \in DOMAIN weights : Registered(k[1]) /\ Registered(k[2])

\* C3: the value index and the node list are in bijection: every index key
\* maps to a listed node with that value, every listed node is the index
\* entry of its value, and no two listed nodes share a value.
C3_IndexBijection ==
  /\ \A v \in DOMAIN node_map :
       Registered(node_map[v]) /\ value[node_map[v]] = v
  /\ \A i \in 1..Len(nodes) :
       /\ value[nodes[i]] \in DOMAIN node_map
       /\ node_map[value[nodes[i]]] = nodes[i]
  /\ \A i, j \in 1..Len(nodes) :
       i # j => value[nodes[i]] # value[nodes[j]]

\* C4: in an undirected graph, right after add_edge(a, b) on two registered
\* nodes (with or without a weight) each is in the other's neighbour list.
C4_AddEdgeBothDirections ==
  (/\ call.op = "add_edge"
   /\ ~directed
   /\ Registered(call.node1) /\ Registered(call.node2)
   /\ call.node1 # call.node2)
  => /\ In(call.node2, neighbours[call.node1])
     /\ In(call.node1, neighbours[call.node2])

C4_Witness ==
  /\ call.op = "add_edge" /\ call.weight # None
  /\ ~directed /\ raised = "none"
  /\ neighbours[call.node1] = <<call.node2>>
  /\ neighbours[call.node2] = <<call.node1>>
  /\ get_edge_weight(call.node2, call.node1) = call.weight

C6_NoInboundAfterRemoveNode ==
  call.op = "remove_node" =>
    \A n \in NodeIds : Registered(n) => ~In(call.node1, neighbours[n])

C6_Witness ==
  /\ call.op = "remove_node"
  /\ directed
  /\ ~Registered(call.node1)
  /\ neighbours[call.node1] = <<>>
  /\ \E n \in NodeIds : Registered(n) /\ <<n, call.node1>> \in DOMAIN weights

\* C7: right after remove_node(x) the neighbour list of x itself is empty.
C7_NoOutboundAfterRemoveNode ==
  call.op = "remove_node" => neighbours[call.node1] = <<>>

\* C8: set_edge_weight(a, b, w) on registered, distinct, non-adjacent a and b
\* creates the adjacency: b in a's neighbours, and a in b's when undirected.
C8_SetEdgeWeightAddsAdjacency ==
  [][(/\ call'.op = "set_edge_weight"
      /\ raised' = "none"
      /\ call'.node1 # call'.node2
      /\ ~In(call'.node2, neighbours[call'.node1]))
     => /\ In(call'.node2, neighbours'[call'.node1])
        /\ (~directed => In(call'.node1, neighbours'[call'.node2]))]_vars

C10_EdgeOpsMembershipCheck ==
  call.op \in EdgeOps =>
    /\ ~(Registered(call.node1) /\ Registered(call.node2))
         => raised = NotInGraphError
    /\ (Registered(call.node1) /\ Registered(call.node2)
        /\ call.node1 # call.node2) => raised = "none"

C10_Witness ==
  /\ call.op = "get_edge_weight"
  /\ Registered(call.node1) /\ ~Registered(call.node2)
  /\ raised = NotInGraphError
  /\ <<call.node1, call.node2>> \in DOMAIN weights

\* C11: a failing add_edge, remove_edge or set_edge_weight (unregistered
\* endpoint, or add_edge(a, a, w) on a registered a) leaves the node list,
\* the index, every neighbour list and the weight table as before the call.
C11_FailedEdgeOpIsAtomic ==
  [][(call'.op \in {"add_edge", "remove_edge", "set_edge_weight"}
      /\ raised' # "none")
     => /\ nodes' = nodes
        /\ node_map' = node_map
        /\ neighbours' = neighbours
        /\ weights' = weights]_vars

C11_Witness ==
  /\ call.op = "add_edge" /\ call.weight # None
  /\ call.node1 = call.node2 /\ Registered(call.node1)
  /\ raised = SelfLoopError
  /\ <<call.node1, call.node1>> \notin DOMAIN weights

\* C12: in a directed graph add_edge(a, b, w) on registered a, b puts b in
\* a's neighbours, leaves b's neighbours alone, records weight(a, b) = w and
\* leaves weight(b, a) as it was.
C12_DirectedAddEdgeOneWay ==
  [][(/\ call'.op = "add_edge" /\ call'.weight # None
      /\ directed
      /\ Registered(call'.node1) /\ Registered(call'.node2)
      /\ call'.node1 # call'.node2)
     => /\ In(call'.node2, neighbours'[call'.node1])
        /\ neighbours'[call'.node2] = neighbours[call'.node2]
        /\ DictGet(weights', <<call'.node1, call'.node2>>) = call'.weight
        /\ DictGet(weights', <<call'.node2, call'.node1>>)
             = DictGet(weights, <<call'.node2, call'.node1>>)]_vars

C12_Witness ==
  /\ call.op = "add_edge" /\ call.weight # None
  /\ directed /\ raised = "none"
  /\ In(call.node2, neighbours[call.node1])
  /\ ~In(call.node1, neighbours[call.node2])
  /\ get_edge_weight(call.node1, call.node2) = call.weight
  /\ <<call.node2, call.node1>> \notin DOMAIN weights

Common(lst, other) == SelectSeq(lst, LAMBDA e : In(e, other))

NoDuplicates(lst) == \A i, j \in 1..Len(lst) : i # j => lst[i] # lst[j]

\* C14: no node ever lists itself as a neighbour, and add_neighbour(n)
\* called on n itself raises the self-loop ValueError and leaves n's
\* neighbour list unchanged.
C14_NoSelfLoop ==
  [][/\ \A n \in DOMAIN neighbours' : ~In(n, neighbours'[n])
     /\ (call'.op = "add_neighbour" /\ call'.node1 = call'.node2)
          => /\ raised' = SelfLoopError
             /\ neighbours' = neighbours]_vars

C14_Witness ==
  /\ call.op = "add_neighbour" /\ call.node1 = call.node2
  /\ raised = SelfLoopError
  /\ Len(neighbours[call.node1]) = 2

\* C15: a neighbour list never holds a node twice and keeps insertion
\* order: no call changes the relative order of the nodes that stay in a
\* list, and add_neighbour(m) appends m at the end when m is absent and
\* leaves the list unchanged when m is present.
C15_NoDuplicatesInsertionOrder ==
  [][/\ \A n \in DOMAIN neighbours' : NoDuplicates(neighbours'[n])
     /\ \A n \in DOMAIN neighbours :
          Common(neighbours[n], neighbours'[n]) = Common(neighbours'[n], neighbours[n])
     /\ (call'.op = "add_neighbour" /\ raised' = "none")
          => neighbours' =
               [neighbours EXCEPT ![call'.node1] =
                  IF In(call'.node2, neighbours[call'.node1])
                  THEN neighbours[call'.node1]
                  ELSE Append(neighbours[call'.node1], call'.node2)]]_vars

C15_Witness ==
  /\ call.op = "add_neighbour" /\ raised = "none"
  /\ Len(neighbours[call.node1]) = 2
  /\ neighbours[call.node1][2] = call.node2
  /\ neighbours[call.node1][1] > call.node2

\* ---- reference notions for the traversal claims -------------------------
Elems(lst) == {lst[i] : i \in 1..Len(lst)}

\* nodes within k hops of n along neighbour lists
RECURSIVE Ball(_, _)
Ball(n, k) ==
  IF k = 0 THEN {n}
  ELSE LET B == Ball(n, k - 1)
       IN  B \cup UNION {Elems(neighbours[m]) : m \in B}

\* nodes reachable from n by following neighbour lists, n included
Reachable(n) == Ball(n, Cardinality(DOMAIN neighbours))

\* shortest number of hops from n to a node m reachable from n
HopDistance(n, m) ==
  CHOOSE k \in 0..Cardinality(DOMAIN neighbours) :
    m \in Ball(n, k) /\ (k = 0 \/ m \notin Ball(n, k - 1))

\* pre-order of the recursive depth-first search: visit n unless it is in
\* the order so far, then recurse into its neighbours in stored order
RECURSIVE RecursiveDfs(_, _)
RECURSIVE RecursiveDfsEach(_, _)
RecursiveDfs(n, sofar) ==
  IF In(n, sofar) THEN sofar
  ELSE RecursiveDfsEach(neighbours[n], Append(sofar, n))
RecursiveDfsEach(lst, sofar) ==
  IF Len(lst) = 0 THEN sofar
  ELSE RecursiveDfsEach(Tail(lst), RecursiveDfs(Head(lst), sofar))

Returned(fn) == frame.fn = fn /\ frame.pc = "done" /\ raised = "none"

\* C16: bfs from a registered start returns a sequence without repeats
\* whose elements are exactly the nodes reachable from start.
C16_BfsVisitsReachableOnce ==
  Returned("bfs") =>
    /\ NoDuplicates(returned)
    /\ Elems(returned) = Reachable(frame.start)
    /\ Len(returned) = Cardinality(Reachable(frame.start))

C16_Witness ==
  /\ Returned("bfs")
  /\ Len(returned) = 3
  /\ \E n \in DOMAIN neighbours :
       n \notin Elems(returned) /\ In(frame.start, neighbours[n])
  /\ \E n \in Elems(returned) : In(frame.start, neighbours[n])

\* C17: in the sequence returned by bfs hop distances from start never
\* decrease.
C17_BfsHopDistanceOrder ==
  Returned("bfs") =>
    \A i, j \in 1..Len(returned) :
      i < j => HopDistance(frame.start, returned[i])
                 <= HopDistance(frame.start, returned[j])

C17_Witness ==
  /\ Returned("bfs")
  /\ Len(returned) = 4
  /\ HopDistance(frame.start, returned[2]) = 1
  /\ HopDistance(frame.start, returned[3]) = 1
  /\ HopDistance(frame.start, returned[4]) = 2
  /\ In(returned[4], neighbours[returned[2]])

\* C18: dfs from a registered start returns a sequence without repeats
\* whose elements are exactly the nodes reachable from start.
C18_DfsVisitsReachableOnce ==
  Returned("dfs") =>
    /\ NoDuplicates(returned)
    /\ Elems(returned) = Reachable(frame.start)

C18_Witness ==
  /\ Returned("dfs")
  /\ Len(returned) = 3
  /\ \E n \in DOMAIN neighbours :
       n \notin Elems(returned) /\ In(frame.start, neighbours[n])
  /\ In(frame.start, neighbours[returned[3]])

\* C19: the sequence returned by the explicit-stack dfs is the pre-order of
\* the recursive depth-first search over stored neighbour order.
C19_DfsIsRecursivePreorder ==
  Returned("dfs") => returned = RecursiveDfs(frame.start, <<>>)

\* a start with two neighbours that share a descendant, on a cycle
C19_Witness ==
  /\ Returned("dfs")
  /\ Len(neighbours[frame.start]) = 2
  /\ \E d \in DOMAIN neighbours :
       /\ d # frame.start
       /\ In(d, neighbours[neighbours[frame.start][1]])
       /\ In(d, neighbours[neighbours[frame.start][2]])
       /\ returned = <<frame.start, neighbours[frame.start][1], d,
                       neighbours[frame.start][2]>>

\* C20: a called bfs or dfs returns: its queue or stack becomes empty.
C20_TraversalTerminates ==
  (frame.pc = "loop") ~> (frame.pc = "done" /\ Len(frame.data) = 0)

\* a traversal that returned on an undirected graph with a triangle
C20_Witness ==
  /\ frame.pc = "done" /\ raised = "none"
  /\ ~directed
  /\ Len(returned) >= 3
  /\ \A n \in Elems(returned) : Len(neighbours[n]) >= 2

\* ---- reference notions for the shortest-path claims ----------------------
RegisteredNodes == Elems(nodes)

\* m lists n as a neighbour and a weight is recorded for (m, n)
WeightedEdge(m, n) == In(n, neighbours[m]) /\ DictGet(weights, <<m, n>>) # None

Min(S) == CHOOSE x \in S : \A y \in S : x <= y

\* the least of D[n] and the weights of the walks that extend by one
\* weighted edge into n a walk D records
ExtendInto(D, n) ==
  Min({D[n]} \cup {D[m] + weights[<<m, n>>] :
                     m \in {x \in DOMAIN D : D[x] < Infinity /\ WeightedEdge(x, n)}})

\* ExtendInto for every node of S, as a function on S
RECURSIVE ExtendAll(_, _)
ExtendAll(D, S) ==
  IF S = {} THEN EmptyDict
  ELSE LET n == CHOOSE x \in S : TRUE
       IN  (n :> ExtendInto(D, n)) @@ ExtendAll(D, S \ {n})

\* from D, the least weights over walks with up to k more edges
RECURSIVE ExtendTimes(_, _)
ExtendTimes(D, k) ==
  IF k = 0 THEN D ELSE ExtendTimes(ExtendAll(D, DOMAIN D), k - 1)

\* least total weight of a path of weighted edges from start to each
\* registered node, Infinity when there is none; with non-negative weights
\* a lightest path visits no node twice, so it has fewer edges than there
\* are nodes
ShortestDistance(start) ==
  ExtendTimes(ExtendAll([n \in RegisteredNodes |-> IF n = start THEN 0 ELSE Infinity],
                        RegisteredNodes),
              Cardinality(RegisteredNodes))

NonNegativeWeights == \A k \in DOMAIN weights : weights[k] >= 0

DijkstraReturned ==
  frame.fn = "dijkstra" /\ frame.pc = "done" /\ raised = "none"

\* C21: bfs, dfs and dijkstra called with a start node that is not
\* registered raise the not-in-graph ValueError, visit nothing and return
\* nothing, also when a registered node carries the start's value.
C21_UnregisteredStartRaises ==
  (call.op \in {"bfs", "dfs", "dijkstra"} /\ ~In(call.node1, nodes)) =>
    /\ raised = StartNotInGraphError
    /\ returned = None
    /\ frame.pc = "done"
    /\ frame.order = <<>> /\ frame.visited = {} /\ frame.data = <<>>
    /\ frame.start = call.node1

C21_Witness ==
  /\ call.op = "dijkstra" /\ call.node1 = Stranger
  /\ raised = StartNotInGraphError
  /\ \E n \in RegisteredNodes : value[n] = value[Stranger]
  /\ Len(neighbours[PathStart]) > 0

\* C22: with non-negative weights the distances dijkstra returns are 0 for
\* start and, for every registered node, the least total weight of a path
\* from start over neighbour-list edges that have a recorded weight.
C22_DijkstraDistancesAreShortest ==
  (DijkstraReturned /\ NonNegativeWeights) =>
    /\ DOMAIN returned[1] = RegisteredNodes
    /\ returned[1][frame.start] = 0
    /\ returned[1] = ShortestDistance(frame.start)

\* the two-edge path beats the direct edge
C22_Witness ==
  /\ DijkstraReturned
  /\ \E n \in RegisteredNodes :
       /\ WeightedEdge(frame.start, n)
       /\ returned[1][n] < weights[<<frame.start, n>>]

\* C23: a registered node without a path of weighted edges from start ends
\* with distance Infinity and without predecessor, also when neighbour
\* lists lead to it.
C23_UnweightedEdgesAbsent ==
  DijkstraReturned =>
    \A n \in RegisteredNodes :
      ShortestDistance(frame.start)[n] = Infinity =>
        returned[1][n] = Infinity /\ n \notin DOMAIN returned[2]

C23_Witness ==
  /\ DijkstraReturned
  /\ \E n \in RegisteredNodes \cap Reachable(frame.start) :
       returned[1][n] = Infinity
  /\ \E m \in RegisteredNodes : m # frame.start /\ returned[1][m] < Infinity

\* C24: with non-negative weights the predecessors dijkstra returns agree
\* with its distances: the keys are the nodes other than start with a
\* finite distance, and each key n has its predecessor p as weighted
\* neighbour with distance[n] = distance[p] + weight(p, n).
C24_PredecessorsMatchDistances ==
  (DijkstraReturned /\ NonNegativeWeights) =>
    /\ frame.start \notin DOMAIN returned[2]
    /\ DOMAIN returned[2] =
         {n \in RegisteredNodes : n # frame.start /\ returned[1][n] < Infinity}
    /\ \A n \in DOMAIN returned[2] :
         /\ WeightedEdge(returned[2][n], n)
         /\ returned[1][n] = returned[1][returned[2][n]]
                               + weights[<<returned[2][n], n>>]

\* a predecessor that was replaced by a better one
C24_Witness ==
  /\ DijkstraReturned
  /\ \E n \in DOMAIN returned[2] :
       /\ returned[2][n] # frame.start
       /\ WeightedEdge(frame.start, n)
       /\ In(frame.start, neighbours[n])

\* C25: with non-negative weights a called dijkstra returns: its priority
\* queue becomes empty.
C25_DijkstraTerminates ==
  (frame.fn = "dijkstra" /\ frame.pc = "loop" /\ NonNegativeWeights)
    ~> (DijkstraReturned /\ Len(frame.data) = 0)

\* dijkstra returned on a graph with a cycle of weight 0 through start
C25_Witness ==
  /\ DijkstraReturned
  /\ \E n \in RegisteredNodes :
       /\ WeightedEdge(frame.start, n) /\ weights[<<frame.start, n>>] = 0
       /\ WeightedEdge(n, frame.start) /\ weights[<<n, frame.start>>] = 0
  /\ Cardinality(DOMAIN returned[2]) = NumPathNodes - 1

\* the entry PriorityQueue.pop takes next was pushed with a priority above
\* the distance now known for its node
StaleEntryOnTop ==
  /\ frame.fn = "dijkstra" /\ frame.pc = "loop"
  /\ Len(frame.data) > 0
  /\ frame.data[1][1] > frame.distances[frame.data[1][3]]

\* C27: with non-negative weights the iteration of dijkstra that pops a
\* stale entry changes no distance and no predecessor and pushes nothing.
C27_StaleEntryDiscarded ==
  [][(StaleEntryOnTop /\ NonNegativeWeights) =>
       /\ frame'.distances = frame.distances
       /\ frame'.previous = frame.previous
       /\ frame'.counter = frame.counter
       /\ Len(frame'.data) = Len(frame.data) - 1
       /\ raised' = "none"]_vars

\* dijkstra returned after it pushed some node twice, so that it popped an
\* entry that was stale
C27_Witness ==
  /\ DijkstraReturned
  /\ frame.counter > Cardinality({n \in RegisteredNodes : returned[1][n] < Infinity})

\* ---- the reference breadth-first search ----------------------------------
\* for nbr in lst: a neighbour not yet discovered is marked and queued
RECURSIVE DiscoverEach(_, _, _)
DiscoverEach(queue, discovered, lst) ==
  IF Len(lst) = 0 THEN <<queue, discovered>>
  ELSE IF Head(lst) \in discovered
  THEN DiscoverEach(queue, discovered, Tail(lst))
  ELSE DiscoverEach(Append(queue, Head(lst)), discovered \cup {Head(lst)}, Tail(lst))

\* the order in which the reference search takes nodes off its queue; every
\* node is in the queue at most once
RECURSIVE DiscoveryBfsFrom(_, _, _)
DiscoveryBfsFrom(queue, discovered, order) ==
  IF Len(queue) = 0 THEN order
  ELSE LET found == DiscoverEach(Tail(queue), discovered, neighbours[Head(queue)])
       IN  DiscoveryBfsFrom(found[1], found[2], Append(order, Head(queue)))

DiscoveryBfs(start) == DiscoveryBfsFrom(<<start>>, {start}, <<>>)

\* C28: the sequence bfs returns is the sequence of the breadth-first search
\* that marks a node when it first discovers it and scans neighbours in
\* stored order.
C28_BfsIsDiscoveryOrderBfs ==
  Returned("bfs") => returned = DiscoveryBfs(frame.start)

\* node 4 was in the queue twice (found from 3 and from 2, both queued
\* before it), and 3 precedes 2 because the start lists it first
C28_Witness ==
  /\ Returned("bfs")
  /\ neighbours[frame.start] = <<3, 2>>
  /\ In(4, neighbours[2]) /\ In(4, neighbours[3])
  /\ returned = <<1, 3, 2, 4>>

\* C29: remove_neighbour(m) called on a node raises nothing and touches no
\* other node's list; when m is not in the node's list (the list may never
\* have held anything) the list and degree() stay as they are, and when m
\* is in it the list loses m, keeps the others in order, and degree()
\* drops by one.
C29_RemoveNeighbour ==
  [][call'.op = "remove_neighbour" =>
       LET self == call'.node1
           m == call'.node2
       IN  /\ raised' = "none"
           /\ \A n \in DOMAIN neighbours \ {self} : neighbours'[n] = neighbours[n]
           /\ IF In(m, neighbours[self])
              THEN /\ neighbours'[self] = Without(neighbours[self], m)
                   /\ degree(neighbours', self) = degree(neighbours, self) - 1
              ELSE /\ neighbours'[self] = neighbours[self]
                   /\ degree(neighbours', self) = degree(neighbours, self)]_vars

\* the first call ever made is remove_neighbour, on a node that therefore
\* never had a neighbour
C29_Witness ==
  /\ call.op = "remove_neighbour" /\ raised = "none"
  /\ ops = 1
  /\ call.node2 # call.node1
  /\ neighbours[call.node1] = <<>>

\* ---- the containers ------------------------------------------------------
\* C26: dequeue or peek on an empty Queue, pop or peek on an empty Stack and
\* pop or peek on an empty PriorityQueue raise IndexError, return nothing
\* and leave the container, and the other two, as they were.
C26_EmptyContainerRaises ==
  [][/\ (call'.op = "Queue.dequeue" /\ frame.queue = <<>>) =>
          raised' = QueueDequeueEmptyError /\ returned' = None /\ frame' = frame
     /\ (call'.op = "Queue.peek" /\ frame.queue = <<>>) =>
          raised' = QueuePeekEmptyError /\ returned' = None /\ frame' = frame
     /\ (call'.op = "Stack.pop" /\ frame.stack = <<>>) =>
          raised' = StackPopEmptyError /\ returned' = None /\ frame' = frame
     /\ (call'.op = "Stack.peek" /\ frame.stack = <<>>) =>
          raised' = StackPeekEmptyError /\ returned' = None /\ frame' = frame
     /\ (call'.op = "PriorityQueue.pop" /\ frame.pq = <<>>) =>
          raised' = PriorityQueuePopEmptyError /\ returned' = None /\ frame' = frame
     /\ (call'.op = "PriorityQueue.peek" /\ frame.pq = <<>>) =>
          raised' = PriorityQueuePeekEmptyError /\ returned' = None /\ frame' = frame
    ]_vars

\* the queue was filled and emptied again before peek found it empty
C26_Witness ==
  /\ call.op = "Queue.peek"
  /\ raised = QueuePeekEmptyError
  /\ frame.queue = <<>>
  /\ frame.made > 0 /\ frame.stack = <<>> /\ frame.pq = <<>>

\* the entry of the priority queue that is due: none has a lower priority,
\* and none of the same priority was pushed before it (items are numbered
\* in the order the client made them)
Due(pq) ==
  CHOOSE i \in 1..Len(pq) :
    \A j \in 1..Len(pq) :
      pq[i][1] < pq[j][1] \/ (pq[i][1] = pq[j][1] /\ pq[i][3] <= pq[j][3])

\* C30: PriorityQueue.pop on a non-empty queue returns the item that has
\* the least priority in the queue and, among those, was pushed first, and
\* takes that entry and no other out of the queue, after any sequence of
\* pushes and pops.
C30_PopReturnsEarliestMinimum ==
  [][(call'.op = "PriorityQueue.pop" /\ frame.pq # <<>>) =>
       /\ raised' = "none"
       /\ returned' = frame.pq[Due(frame.pq)][3]
       /\ Len(frame'.pq) = Len(frame.pq) - 1
       /\ Elems(frame'.pq) = Elems(frame.pq) \ {frame.pq[Due(frame.pq)]}]_vars

\* items 1 and 2 were pushed with priority 1 and item 3 after them with
\* priority 0; the first pop took 3 and the second took 1, the earlier of
\* the two that are left with equal priority
C30_Witness ==
  /\ call.op = "PriorityQueue.pop" /\ raised = "none"
  /\ ops = 5 /\ frame.made = 3 /\ frame.counter = 3
  /\ frame.queue = <<>> /\ frame.stack = <<>>
  /\ returned = 1
  /\ Len(frame.pq) = 1 /\ frame.pq[1][3] = 2 /\ frame.pq[1][1] = 1

\* ---- the graph again -----------------------------------------------------
\* C36: remove_node(x) with x not registered changes neither the node list,
\* nor the value index, nor a registered node's neighbour list, nor the
\* weight table.
C36_RemoveUnregisteredNodeIsNoOp ==
  [][(call'.op = "remove_node" /\ ~In(call'.node1, nodes)) =>
       /\ nodes' = nodes
       /\ node_map' = node_map
       /\ \A n \in Elems(nodes) : neighbours'[n] = neighbours[n]
       /\ weights' = weights]_vars

\* lst is the beginning of longer
IsPrefix(lst, longer) ==
  Len(lst) <= Len(longer) /\ \A i \in 1..Len(lst) : longer[i] = lst[i]

\* C40: an add_edge call that repeats the call before it (same nodes, same
\* weight or none) changes nothing and ends as that call ended; add_edge(a, b)
\* without weight, where a lists b and a weight is recorded for (a, b),
\* leaves the whole weight table and a's list as they were and keeps the
\* order of every other list.
C40_AddEdgeIdempotent ==
  [][call'.op = "add_edge" =>
       /\ call' = call =>
            /\ raised' = raised
            /\ neighbours' = neighbours /\ weights' = weights
            /\ nodes' = nodes /\ node_map' = node_map
       /\ (/\ call'.weight = None
           /\ raised' = "none"
           /\ In(call'.node2, neighbours[call'.node1])
           /\ <<call'.node1, call'.node2>> \in DOMAIN weights) =>
            /\ weights' = weights
            /\ neighbours'[call'.node1] = neighbours[call'.node1]
            /\ \A n \in DOMAIN neighbours : IsPrefix(neighbours[n], neighbours'[n])
            /\ nodes' = nodes /\ node_map' = node_map]_vars

\* two nodes were registered, one call recorded a weight for the edge between
\* them in both directions, and add_edge without weight came after it
C40_Witness ==
  /\ call.op = "add_edge" /\ call.weight = None /\ raised = "none"
  /\ ops = 4 /\ Len(nodes) = 2 /\ ~directed
  /\ DOMAIN weights = {<<call.node1, call.node2>>, <<call.node2, call.node1>>}
  /\ neighbours[call.node1] = <<call.node2>>
  /\ neighbours[call.node2] = <<call.node1>>

\* ---- dijkstra again ------------------------------------------------------
\* node n has been popped with the distance it has now: it has a distance
\* and the entry pushed when that distance was set is no longer queued
Settled(n) ==
  /\ frame.distances[n] < Infinity
  /\ \A i \in 1..Len(frame.data) :
       ~(frame.data[i][3] = n /\ frame.data[i][1] = frame.distances[n])

\* C38: with non-negative weights, an iteration of dijkstra pops the first
\* entry of the heap, no entry has a lower priority, and every entry the
\* iteration leaves or pushes has a priority at least that of the popped
\* one, so the priorities popped never decrease; and the
\* iteration lowers neither the distance of a node popped earlier with its
\* current distance nor that of the node it pops with its current distance.
C38_PopsNeverDecrease ==
  [][(/\ frame.fn = "dijkstra" /\ frame.pc = "loop" /\ Len(frame.data) > 0
      /\ NonNegativeWeights) =>
       /\ \A i \in 1..Len(frame'.data) : frame'.data[i] # frame.data[1]
       /\ \A i \in 1..Len(frame'.data) : frame'.data[i][1] >= frame.data[1][1]
       /\ \A i \in 1..Len(frame.data) : frame.data[1][1] <= frame.data[i][1]
       /\ \A n \in DOMAIN frame.distances :
            (Settled(n) \/ (frame.data[1][3] = n /\ frame.data[1][1] = frame.distances[n]))
              => frame'.distances[n] = frame.distances[n]]_vars

\* dijkstra returned after it popped at least four entries, one of them
\* stale, and found a node over two edges
C38_Witness ==
  /\ DijkstraReturned
  /\ frame.counter >= 4
  /\ \E n \in DOMAIN returned[2] : returned[2][n] # frame.start

\* ---- traversals after the graph was changed ------------------------------
\* C35: every node in the list bfs or dfs returns from a registered start
\* is registered.
C35_TraversalReturnsRegisteredNodes ==
  ((Returned("bfs") \/ Returned("dfs")) /\ In(frame.start, nodes)) =>
    \A i \in 1..Len(returned) : In(returned[i], nodes)

\* C37: dijkstra called with a registered start raises nothing.
C37_DijkstraNeverRaises ==
  (frame.fn = "dijkstra" /\ In(frame.start, nodes)) => raised = "none"

TreeNodes == 1..Len(frame.val)

\* the nodes of the subtree under node, None being the empty subtree
RECURSIVE Subtree(_)
Subtree(node) ==
  IF node = None
  THEN {}
  ELSE {node} \cup Subtree(frame.left[node]) \cup Subtree(frame.right[node])

InorderFinished == frame.fn = "tree" /\ frame.pc = "done"

\* C31: list(tree.inorder()) on a tree built by insert calls ends without an
\* error, and the list holds every node of the tree exactly once, each
\* value greater than the one before it.
C31_InorderAscending ==
  InorderFinished =>
    /\ raised = "none"
    /\ Len(returned) = Len(frame.val)
    /\ \A node \in TreeNodes : In(node, returned)
    /\ \A i \in 1..Len(returned) : \A j \in 1..Len(returned) :
         i < j => frame.val[returned[i]] < frame.val[returned[j]]

\* C32: after any insert calls every value in a node's left subtree is
\* smaller than the node's and every value in its right subtree larger;
\* insert of a value that is in the tree changes no node and not the root;
\* search(v) returns a node of value v when v was given to insert before,
\* and None otherwise.
SearchTreeOrder ==
  \A node \in TreeNodes :
    /\ \A below \in Subtree(frame.left[node]) : frame.val[below] < frame.val[node]
    /\ \A below \in Subtree(frame.right[node]) : frame.val[below] > frame.val[node]

C32_SearchTree ==
  [][ frame.fn = "tree" =>
      /\ SearchTreeOrder'
      /\ Subtree(frame.root)' = TreeNodes'
      /\ (call'.op = "BinarySearchTree.insert" /\ ops' = ops + 1
            /\ call'.node1 \in frame.inserted)
           => frame' = frame
      /\ (call'.op = "BinarySearchTree.search" /\ ops' = ops + 1)
           => IF call'.node1 \in frame.inserted
              THEN /\ returned' \in TreeNodes
                   /\ frame.val[returned'] = call'.node1
              ELSE returned' = None ]_vars

\* a tree of four nodes, two levels under the root, in which a value that is
\* there was found
C32_Witness ==
  /\ frame.fn = "tree"
  /\ call.op = "BinarySearchTree.search"
  /\ Len(frame.val) = 4
  /\ returned \in TreeNodes
  /\ returned # frame.root
  /\ \E node \in TreeNodes : frame.left[node] # None /\ frame.right[node] # None

\* ---- the linked lists -----------------------------------------------------
\* what iterating the client's list yields
Iterated ==
  CASE frame.fn = "SinglyLinkedList" -> iter_from(frame, frame.head)
    [] frame.fn = "DoublyLinkedList" -> iter_from(frame, frame.head)
    [] frame.fn = "CircularLinkedList" -> iter_counted(frame, frame.head, 0)

\* C33: for each of the three list classes, after every append, prepend,
\* pop_front and pop_back, iterating the list yields the contents of the
\* client's sequence, to which the same was done, and len() is its length;
\* a pop returns the value that left the sequence; a pop on an empty list
\* raises IndexError and leaves it empty.
C33_ListsFollowReference ==
  [][ (frame.fn \in ListClasses /\ ops' = ops + 1) =>
      /\ Iterated' = frame'.ref
      /\ frame'.size = Len(frame'.ref)
      /\ call'.op \in {"append", "prepend"} =>
           /\ raised' = "none"
           /\ returned' = None
      /\ call'.op = "len" => returned' = Len(frame.ref)
      /\ call'.op = "iter" => returned' = frame.ref
      /\ (call'.op \in {"pop_front", "pop_back"} /\ frame.ref = <<>>) =>
           /\ raised' = PopEmptyError(frame.fn)
           /\ Iterated' = <<>>
           /\ frame'.size = 0
      /\ (call'.op = "pop_front" /\ frame.ref # <<>>) =>
           /\ raised' = "none"
           /\ returned' = Head(frame.ref)
      /\ (call'.op = "pop_back" /\ frame.ref # <<>>) =>
           /\ raised' = "none"
           /\ returned' = frame.ref[Len(frame.ref)] ]_vars

\* a list that held three items, lost one at each end, and was iterated
C33_Witness ==
  /\ frame.fn \in ListClasses
  /\ call.op = "iter"
  /\ Len(frame.val) = 3
  /\ returned = <<frame.val[frame.head]>>
  /\ frame.head = 2
  /\ ops >= 6

\* ---- the sorting functions ------------------------------------------------
NonDecreasing(lst) == \A i \in 1..(Len(lst) - 1) : lst[i] <= lst[i + 1]

Occurrences(lst, x) == Cardinality({i \in 1..Len(lst) : lst[i] = x})

IsPermutation(lst, other) ==
  /\ Len(lst) = Len(other)
  /\ \A x \in Numbers : Occurrences(lst, x) = Occurrences(other, x)

SortingFunctions == {"bubble_sort", "selection_sort", "insertion_sort", "merge_sort"}

\* C34: each of bubble_sort, selection_sort, insertion_sort and merge_sort,
\* called on any list of numbers, returns a list object that did not exist
\* before the call, in non-decreasing order and a permutation of the list it
\* was given, and leaves that list, like every list that existed before the
\* call, as it was.
C34_SortsReturnNewSortedList ==
  [][ (frame.fn = "sorting" /\ ops' = ops + 1) =>
      /\ call'.op \in SortingFunctions
      /\ raised' = "none"
      /\ returned' \in (Len(frame.lists) + 1)..Len(frame'.lists)
      /\ NonDecreasing(frame'.lists[returned'])
      /\ IsPermutation(frame'.lists[returned'], frame.lists[1])
      /\ \A arr \in 1..Len(frame.lists) : frame'.lists[arr] = frame.lists[arr] ]_vars

\* merge_sort has sorted a list of four numbers, one of them twice, whose
\* largest number came first, after another function had sorted it
C34_Witness ==
  /\ frame.fn = "sorting"
  /\ call.op = "merge_sort"
  /\ ops = 2
  /\ Len(frame.lists[1]) = 4
  /\ \A i \in 2..4 : frame.lists[1][1] > frame.lists[1][i]
  /\ frame.lists[1][2] = frame.lists[1][4]
  /\ frame.lists[returned][4] = frame.lists[1][1]

====
